---- MODULE Spec2Model ----
(***************************************************************************)
(* A model of the Gaea proxy's session engine and of its dual-slot         *)
(* namespace / user manager (proxy/server: Session, Manager,               *)
(* NamespaceManager, UserManager, StatisticManager).                       *)
(*                                                                         *)
(* Strings whose characters matter (user names, passwords, map keys) are   *)
(* sequences of one-character strings, so that getUserKey and              *)
(* getUserAndPasswordFromKey are computed, not assumed inverse.            *)
(***************************************************************************)
EXTENDS Integers, Sequences, FiniteSets, TLC

\* ------------------------------------------------------------------ bounds

\* Number of namespace instances NewNamespace may build after start-up.
MaxBuilds == 2

\* ReloadNamespacePrepare calls made while a session is being served.
MaxReloads == 2

\* Requests one session reads.
MaxRequests == 2

\* Backend connections handed out by the pools.
MaxConns == 1

\* ------------------------------------------------------------ input domains

Names == {"a", "b"}

Admins == {"t1", "t2"}

uU == <<"u">>
uV == <<"v">>
pP == <<"p">>
pQ == <<"q">>
pPQ == <<"p", ":", "q">>

UserNames == {uU, uV}
Passwords == {pP, pQ, pPQ}

\* models.Namespace.Users of the configurations that are loaded or reloaded.
UserLists ==
    { <<>>,
      << [UserName |-> uU, Password |-> pP] >>,
      << [UserName |-> uU, Password |-> pQ], [UserName |-> uV, Password |-> pP] >>,
      << [UserName |-> uU, Password |-> pPQ] >> }

\* The user list every namespace starts with: name "a" owns u:p, "b" owns v:q.
InitialUsers(name) ==
    IF name = "a" THEN << [UserName |-> uU, Password |-> pP] >>
                  ELSE << [UserName |-> uV, Password |-> pQ] >>

MaxConnChoices == {2}

\* A namespace configuration (models.Namespace): valid = NewNamespace accepts it.
Configs ==
    [Name : Names, Users : UserLists, valid : BOOLEAN, max : MaxConnChoices]

\* ------------------------------------------------------------------- maps

EmptyMap == [k \in {} |-> 0]

MapPut(m, k, v) == [x \in (DOMAIN m) \cup {k} |-> IF x = k THEN v ELSE m[x]]

MapDel(m, k) == [x \in (DOMAIN m) \ {k} |-> m[x]]

\* ------------------------------------------------------------- namespaces

\* The nil *Namespace.
NoNs == [id |-> 0, name |-> "", idx |-> 0, max |-> 0]

\* The nil *NamespaceManager (the slot CreateManager leaves unset).
NilNamespaceManager == [isNil |-> TRUE, ns |-> [n \in Names |-> NoNs]]

NewNamespaceManager == [isNil |-> FALSE, ns |-> [n \in Names |-> NoNs]]

\* NewNamespace(config): a fresh instance; namespaceChangeIndex has Go's zero value.
NewNamespace(cfg, id) == [id |-> id, name |-> cfg.Name, idx |-> 0, max |-> cfg.max]

NsGetNamespace(nsMgr, name) == IF name \in Names THEN nsMgr.ns[name] ELSE NoNs

ShallowCopyNamespaceManager(nsMgr) == [isNil |-> FALSE, ns |-> nsMgr.ns]

RebuildNamespace(nsMgr, cfg, id) ==
    [nsMgr EXCEPT !.ns[cfg.Name] = NewNamespace(cfg, id)]

NsDeleteNamespace(nsMgr, name) == [nsMgr EXCEPT !.ns[name] = NoNs]

\* ------------------------------------------------------------------ users

getUserKey(username, password) == username \o <<":">> \o password

\* strings.Split(key, ":")
RECURSIVE SplitColon(_)
SplitColon(s) ==
    IF \A i \in 1..Len(s) : s[i] # ":"
    THEN << s >>
    ELSE LET i == CHOOSE j \in 1..Len(s) :
                      s[j] = ":" /\ \A k \in 1..(j - 1) : s[k] # ":"
         IN  << SubSeq(s, 1, i - 1) >> \o SplitColon(SubSeq(s, i + 1, Len(s)))

\* strs[0], strs[1]
getUserAndPasswordFromKey(key) ==
    LET strs == SplitColon(key)
    IN  [username |-> strs[1], password |-> strs[2]]

NilUserManager == [isNil |-> TRUE, users |-> EmptyMap, userNamespaces |-> EmptyMap]

NewUserManager == [isNil |-> FALSE, users |-> EmptyMap, userNamespaces |-> EmptyMap]

\* u.users[username] of a Go map: the nil slice when the key is missing.
UsersOf(u, username) ==
    IF username \in DOMAIN u.users THEN u.users[username] ELSE <<>>

CloneUserManager(user) ==
    [isNil |-> FALSE, users |-> user.users, userNamespaces |-> user.userNamespaces]

\* The inner loop of ClearNamespaceUsers over the slice arr, whose backing array
\* append(arr[:i], arr[i+1:]...) rewrites in place: <<array, s>> after index i..n.
RECURSIVE RemovePassword(_, _, _, _)
RemovePassword(arr, s, i, password) ==
    IF i > Len(arr) THEN s
    ELSE IF arr[i] = password
         THEN LET shifted == [k \in 1..Len(arr) |->
                                 IF k < i THEN arr[k]
                                 ELSE IF k < Len(arr) THEN arr[k + 1]
                                 ELSE arr[k]]
              IN  RemovePassword(shifted, SubSeq(shifted, 1, Len(arr) - 1), i + 1, password)
         ELSE RemovePassword(arr, s, i + 1, password)

\* One iteration of ClearNamespaceUsers' range loop, for a key of the namespace.
ClearKey(u, key) ==
    LET up == getUserAndPasswordFromKey(key)
        s  == RemovePassword(UsersOf(u, up.username), <<>>, 1, up.password)
    IN  [u EXCEPT !.userNamespaces = MapDel(u.userNamespaces, key),
                  !.users = MapPut(u.users, up.username, s)]

\* The range loop visits the namespace's keys in any order (Go map iteration).
RECURSIVE ClearKeys(_, _)
ClearKeys(u, keys) ==
    IF keys = {} THEN {u}
    ELSE UNION { ClearKeys(ClearKey(u, k), keys \ {k}) : k \in keys }

\* The user managers ClearNamespaceUsers can leave.
ClearNamespaceUsers(u, namespace) ==
    ClearKeys(u, {k \in DOMAIN u.userNamespaces : u.userNamespaces[k] = namespace})

RECURSIVE addUsersFrom(_, _, _, _)
addUsersFrom(u, name, list, i) ==
    IF i > Len(list) THEN u
    ELSE LET user == list[i]
             key  == getUserKey(user.UserName, user.Password)
         IN  addUsersFrom(
                 [u EXCEPT !.userNamespaces = MapPut(u.userNamespaces, key, name),
                           !.users = MapPut(u.users, user.UserName,
                                            Append(UsersOf(u, user.UserName), user.Password))],
                 name, list, i + 1)

addNamespaceUsers(u, cfg) == addUsersFrom(u, cfg.Name, cfg.Users, 1)

RebuildNamespaceUsers(u, cfg) ==
    { addNamespaceUsers(c, cfg) : c \in ClearNamespaceUsers(u, cfg.Name) }

UmCheckUser(u, user) == user \in DOMAIN u.users

\* CheckPassword / CheckSha2Password: the first stored password whose scramble
\* equals the client's; auth stands for the password the client scrambled.
RECURSIVE FirstMatch(_, _, _)
FirstMatch(list, auth, i) ==
    IF i > Len(list) THEN [succ |-> FALSE, password |-> <<>>]
    ELSE IF list[i] = auth THEN [succ |-> TRUE, password |-> list[i]]
    ELSE FirstMatch(list, auth, i + 1)

UmCheckPassword(u, user, auth) == FirstMatch(UsersOf(u, user), auth, 1)

\* The length of a stored native-hash password: "*" and 40 hex digits.
HashLen == 41

\* The hash a configuration stores for a clear password ("*" and the hex of
\* SHA1(SHA1(password))): the password padded or cut to 40 digits.
HashOf(password) ==
    IF Len(password) < HashLen - 1
    THEN <<"*">> \o password \o [i \in 1..(HashLen - 1 - Len(password)) |-> "0"]
    ELSE <<"*">> \o SubSeq(password, 1, HashLen - 1)

\* mysql.CalcPassword: the mysql_native_password scramble of a clear
\* password, 20 bytes long (the salt is the same all along and left out).
CalcPassword(password) == [scheme |-> "native", clear |-> password, len |-> 20]

\* mysql.CalcCachingSha2Password: the SHA-256 scramble, 32 bytes long.
CalcCachingSha2Password(password) ==
    [scheme |-> "sha2", clear |-> password, len |-> 32]

\* mysql.CheckHashPassword: a native scramble checked against a stored hash
\* (the stored password without its "*").
mysqlCheckHashPassword(auth, hash) ==
    auth.scheme = "native" /\ <<"*">> \o hash = HashOf(auth.clear)

\* The test one password of u.users[user] undergoes in CheckPassword
\* ("classic"), CheckHashPassword ("hash") and CheckSha2Password ("sha2").
Verifies(scheme, auth, password) ==
    IF scheme = "classic" THEN auth = CalcPassword(password)
    ELSE IF scheme = "sha2" THEN auth = CalcCachingSha2Password(password)
    ELSE /\ password # <<>> /\ password[1] = "*" /\ Len(password) = HashLen
         /\ mysqlCheckHashPassword(auth, Tail(password))

\* The range loop of the three checks: the first password that verifies.
RECURSIVE FirstVerified(_, _, _, _)
FirstVerified(list, scheme, auth, i) ==
    IF i > Len(list) THEN [succ |-> FALSE, password |-> <<>>]
    ELSE IF Verifies(scheme, auth, list[i]) THEN [succ |-> TRUE, password |-> list[i]]
    ELSE FirstVerified(list, scheme, auth, i + 1)

UmCheck(u, user, scheme, auth) == FirstVerified(UsersOf(u, user), scheme, auth, 1)

UmGetNamespaceByUser(u, userName, password) ==
    LET key == getUserKey(userName, password)
    IN  IF key \in DOMAIN u.userNamespaces THEN u.userNamespaces[key] ELSE ""

\* ------------------------------------------------------------------ state

VARIABLES
    reloadPrepared,   \* Manager.reloadPrepared
    switchIndex,      \* Manager.switchIndex: 0 or 1, the readable slot
    namespaces,       \* Manager.namespaces[2]
    users,            \* Manager.users[2]
    nextId,           \* identity of the next instance NewNamespace builds
    closing,          \* ids of the instances handed to `go ns.Close(true)`
    adm,              \* per admin thread: where it is in ReloadNamespaceCommit
    ret,              \* the manager call that returned last, and its error
    lastPrepared,     \* per name: id built by its latest successful prepare
    lastSeen,         \* per name: the instance readers resolved last
    nPrepared,        \* successful ReloadNamespacePrepare calls
    nCommitted,       \* ReloadNamespaceCommit calls whose CAS succeeded
    nSwitched,        \* switchIndex.Set calls made by ReloadNamespaceCommit
    sess,             \* per client connection: Session and its SessionExecutor
    clientConnecions, \* StatisticManager.clientConnecions: name -> counter object
    counters,         \* the *atomic.Int32 objects stored in clientConnecions
    conns,            \* per backend connection: Close and Recycle calls made on it
    nextConn,         \* next backend connection a pool hands out
    statistics,       \* StatisticManager.SQLResponsePercentile and the goroutines using it
    bucket,           \* a bucketpool.Pool, the buffers handed out, and the last call
    call              \* the last call of a function without state: arguments, result

mgrVars == <<reloadPrepared, switchIndex, namespaces, users, nextId, closing>>

admVars == <<adm, ret, lastPrepared, lastSeen, nPrepared, nCommitted, nSwitched>>

sessVars == <<sess, clientConnecions, counters, conns, nextConn, statistics, bucket,
              call>>

vars == <<mgrVars, admVars, sessVars>>

\* ---------------------------------------------------------------- readers

\* util.BoolIndex.Get: current, other.
Current == switchIndex

Other == 1 - switchIndex

GetNamespace(name) == NsGetNamespace(namespaces[Current], name)

CheckUser(user) == UmCheckUser(users[Current], user)

CheckPassword(user, auth) == UmCheckPassword(users[Current], user, auth)

GetNamespaceByUser(userName, password) ==
    UmGetNamespaceByUser(users[Current], userName, password)

\* Everything a reader can resolve through the manager.
ReaderView ==
    [ns    |-> [n \in Names |-> GetNamespace(n)],
     user  |-> [u \in UserNames |-> CheckUser(u)],
     pass  |-> [u \in UserNames |-> [p \in Passwords |-> CheckPassword(u, p)]],
     owner |-> [u \in UserNames |-> [p \in Passwords |-> GetNamespaceByUser(u, p)]]]

\* ------------------------------------------------------------ construction

\* CreateNamespaceManager over the loaded configurations `present`.
CreateNamespaceManager(present) ==
    [isNil |-> FALSE,
     ns |-> [n \in Names |->
               IF n \in present
               THEN NewNamespace([Name |-> n, max |-> 2], IF n = "a" THEN 1 ELSE 2)
               ELSE NoNs]]

\* CreateUserManager: addNamespaceUsers for each configuration, in map order.
CreateUserManager(order) ==
    LET cfgOf(n) == [Name |-> n, Users |-> InitialUsers(n)]
    IN  IF Len(order) = 0 THEN NewUserManager
        ELSE IF Len(order) = 1 THEN addNamespaceUsers(NewUserManager, cfgOf(order[1]))
        ELSE addNamespaceUsers(addNamespaceUsers(NewUserManager, cfgOf(order[1])),
                               cfgOf(order[2]))

InitOrders == { <<>>, <<"a">>, <<"b">>, <<"a", "b">>, <<"b", "a">> }

Range(seq) == { seq[i] : i \in 1..Len(seq) }

\* CreateManager: slot 0 is built, slot 1 stays nil, nothing is prepared.
InitManager ==
    /\ reloadPrepared = FALSE
    /\ switchIndex = 0
    /\ \E order \in InitOrders :
          /\ namespaces = [i \in 0..1 |-> IF i = 0 THEN CreateNamespaceManager(Range(order))
                                                   ELSE NilNamespaceManager]
          /\ users = [i \in 0..1 |-> IF i = 0 THEN CreateUserManager(order)
                                              ELSE NilUserManager]
    /\ nextId = 3
    /\ closing = {}

InitAdmin ==
    /\ adm = [t \in Admins |-> [pc |-> "idle", name |-> ""]]
    /\ ret = [op |-> "none", name |-> "", err |-> "nil", noop |-> FALSE]
    /\ lastPrepared = [n \in Names |-> 0]
    /\ lastSeen = [n \in Names |-> namespaces[0].ns[n]]
    /\ nPrepared = 0
    /\ nCommitted = 0
    /\ nSwitched = 0

Sessions == {"s1", "s2", "s3"}

\* newSession / newSessionExecutor, and the per-request observations kept
\* about the session (the g fields).
\* The QPS limit of a namespace as handleQuery finds it: clientQPSLimit,
\* supportLimitTx, and whether the limiter has a token for the query.
NoQps == [limit |-> 0, supportLimitTx |-> FALSE, token |-> TRUE]

QpsInputs ==
    [limit : {0, 1}, supportLimitTx : BOOLEAN, token : BOOLEAN]

NewSession ==
    [pc |-> "accept", namespace |-> "", closed |-> FALSE, hs |-> "none",
     keep |-> FALSE, inTrans |-> FALSE, ksConns |-> {}, txConns |-> {},
     continueConn |-> {}, nsOld |-> 0, ns |-> NoNs, cmd |-> "none", rs |-> "none",
     ctr |-> 0, nReq |-> 0,
     gStart |-> 0, gKs |-> {}, gInTx |-> FALSE, gSwapped |-> FALSE, gExecuted |-> FALSE,
     gWriteErr |-> FALSE, gDone |-> FALSE,
     tw |-> "off", teardowns |-> 0, nResp |-> 0,
     gErrPackets |-> 0, gSent |-> FALSE, piece |-> 0, autocommit |-> TRUE,
     gQps |-> NoQps,
     gInfo |-> [User |-> <<>>, AuthPlugin |-> "", len |-> 0],
     gTried |-> <<>>, gPassword |-> <<>>, gChecks |-> <<>>,
     sql |-> <<>>, more |-> FALSE, rsMore |-> FALSE, gRun |-> <<>>, gFlags |-> <<>>, gPanic |-> "none", nCleanup |-> 0,
     hasRecycledReadPacket |-> FALSE, nRecycled |-> 0, nMetrics |-> 0]

\* The goroutines calling recordBackendSQLTiming.
Recorders == {"r1", "r2"}

\* NewSQLResponse: the sample channel is empty and sampling is off.  gOff
\* tells that a send has timed out and CalcAvgSQLTimes has taken nothing from
\* the channel since; gWritten holds the values the switch has been given.
NewSQLResponse ==
    [sQLExecTimeChan |-> 0, sqlExecTimeRecordSwitch |-> FALSE,
     gOff |-> FALSE, gWritten |-> {FALSE}]

\* NewStatisticManager and Manager.Init: one SQLResponse per namespace, no
\* recordBackendSQLTiming call under way, CalcAvgSQLTimes not running.
InitStatistics ==
    [SQLResponsePercentile |-> [n \in Names |-> NewSQLResponse],
     rec  |-> [r \in Recorders |-> [pc |-> "idle", namespace |-> "a"]],
     calc |-> [pc |-> "idle", todo |-> {}, ns |-> "a", len |-> 0, quit |-> FALSE,
               gOn |-> {}]]

\* No bucketpool.Pool has been made.
NoPool ==
    [made |-> FALSE, minSize |-> 0, maxSize |-> 0, pools |-> <<>>, held |-> <<>>,
     last |-> [op |-> "none"]]

InitSessions ==
    /\ statistics = InitStatistics
    /\ bucket = NoPool
    /\ call = [fn |-> "none"]
    /\ sess = [s \in Sessions |-> NewSession]
    /\ clientConnecions = [n \in Names |-> 0]
    /\ counters = <<>>
    /\ conns = [i \in 1..MaxConns |-> [ns |-> 0, closed |-> 0, recycled |-> 0]]
    /\ nextConn = 1

\* lastSeen after a step: what readers resolve now, or resolved last.
SeenAfter(idx, nss) ==
    [n \in Names |-> IF nss[idx].ns[n] # NoNs THEN nss[idx].ns[n] ELSE lastSeen[n]]

\* ---------------------------------------------------------- manager calls

Returned(op, name, err, noop) == [op |-> op, name |-> name, err |-> err, noop |-> noop]

\* ReloadNamespacePrepare reads m.namespaces[current] and m.users[current] ...
PrepareSource(current, other) == current

\* Mutant: the prepare stores into the slot readers resolve.
PrepareTargetActive(current, other) == current

\* ... and stores into m.namespaces[other] and m.users[other].
PrepareTarget(current, other) == other

\* nsChangeIndexOld + 1, nsChangeIndexOld being 0 when the name is new.
NextChangeIndex(nsOld) == (IF nsOld # NoNs THEN nsOld.idx ELSE 0) + 1

\* ReloadNamespacePrepare(namespaceConfig)
ReloadNamespacePrepare(t, cfg) ==
    /\ adm[t].pc = "idle"
    /\ UNCHANGED sessVars
    /\ LET src      == PrepareSource(Current, Other)
           dst      == PrepareTarget(Current, Other)
           nsOld    == NsGetNamespace(namespaces[src], cfg.Name)
           copy     == ShallowCopyNamespaceManager(namespaces[src])
           rebuilt  == RebuildNamespace(copy, cfg, nextId)
           newNsMgr == [rebuilt EXCEPT !.ns[cfg.Name].idx = NextChangeIndex(nsOld)]
       IN  IF ~cfg.valid
           THEN \* RebuildNamespace failed: return err
                /\ ret' = Returned("prepare", cfg.Name, "build", FALSE)
                /\ UNCHANGED <<mgrVars, adm, lastPrepared, lastSeen,
                               nPrepared, nCommitted, nSwitched>>
           ELSE /\ namespaces' = [namespaces EXCEPT ![dst] = newNsMgr]
                /\ \E newUserManager \in
                          RebuildNamespaceUsers(CloneUserManager(users[src]), cfg) :
                      users' = [users EXCEPT ![dst] = newUserManager]
                /\ reloadPrepared' = TRUE
                /\ nextId' = nextId + 1
                /\ nPrepared' = nPrepared + 1
                /\ lastPrepared' = [lastPrepared EXCEPT ![cfg.Name] = nextId]
                /\ lastSeen' = SeenAfter(switchIndex, namespaces')
                /\ ret' = Returned("prepare", cfg.Name, "nil", FALSE)
                /\ UNCHANGED <<switchIndex, closing, adm, nCommitted, nSwitched>>

\* Mutant: the flag is tested but not cleared.
CompareAndSwapKeepsFlag(flag) == [ok |-> flag, after |-> flag]

\* m.reloadPrepared.CompareAndSwap(true, false): success, and the flag afterwards.
CompareAndSwapPrepared(flag) == [ok |-> flag, after |-> IF flag THEN FALSE ELSE flag]

\* ReloadNamespaceCommit(name), up to the CompareAndSwap.
CommitCAS(t, name) ==
    /\ adm[t].pc = "idle"
    /\ LET cas == CompareAndSwapPrepared(reloadPrepared)
       IN  /\ reloadPrepared' = cas.after
           /\ IF cas.ok
              THEN /\ adm' = [adm EXCEPT ![t] = [pc |-> "switch", name |-> name]]
                   /\ nCommitted' = nCommitted + 1
                   /\ UNCHANGED ret
              ELSE /\ ret' = Returned("commit", name, "ErrNamespaceNotPrepared", FALSE)
                   /\ UNCHANGED <<adm, nCommitted>>
    /\ UNCHANGED <<switchIndex, namespaces, users, nextId, closing,
                   lastPrepared, lastSeen, nPrepared, nSwitched, sessVars>>

\* ReloadNamespaceCommit(name), after the CompareAndSwap: close the current
\* instance of name in the background and flip the index.
CommitSwitch(t) ==
    /\ adm[t].pc = "switch"
    /\ LET name == adm[t].name
           currentNamespace == NsGetNamespace(namespaces[Current], name)
       IN  /\ closing' = IF currentNamespace # NoNs
                         THEN closing \cup {currentNamespace.id} ELSE closing
           /\ switchIndex' = 1 - switchIndex
           /\ ret' = Returned("commit", name, "nil", FALSE)
    /\ adm' = [adm EXCEPT ![t] = [pc |-> "idle", name |-> ""]]
    /\ nSwitched' = nSwitched + 1
    /\ lastSeen' = SeenAfter(switchIndex', namespaces)
    /\ UNCHANGED <<reloadPrepared, namespaces, users, nextId,
                   lastPrepared, nPrepared, nCommitted, sessVars>>

\* Mutant: no early return for an absent name.
DeleteNeverAbsent(currentNamespace) == FALSE

\* DeleteNamespace's "idempotent delete" test.
DeleteIsAbsent(currentNamespace) == currentNamespace = NoNs

\* DeleteNamespace(name)
DeleteNamespace(t, name) ==
    /\ adm[t].pc = "idle"
    /\ LET currentNamespace == NsGetNamespace(namespaces[Current], name)
           newNsMgr == NsDeleteNamespace(ShallowCopyNamespaceManager(namespaces[Current]), name)
       IN  IF DeleteIsAbsent(currentNamespace)
           THEN /\ ret' = Returned("delete", name, "nil", TRUE)
                /\ UNCHANGED <<mgrVars, lastSeen>>
           ELSE /\ namespaces' = [namespaces EXCEPT ![Other] = newNsMgr]
                /\ \E newUserManager \in
                          ClearNamespaceUsers(CloneUserManager(users[Current]), name) :
                      users' = [users EXCEPT ![Other] = newUserManager]
                /\ switchIndex' = 1 - switchIndex
                /\ closing' = IF currentNamespace # NoNs
                              THEN closing \cup {currentNamespace.id} ELSE closing
                /\ lastSeen' = SeenAfter(switchIndex', namespaces')
                /\ ret' = Returned("delete", name, "nil", FALSE)
                /\ UNCHANGED <<reloadPrepared, nextId>>
    /\ UNCHANGED <<adm, lastPrepared, nPrepared, nCommitted, nSwitched, sessVars>>

\* ---------------------------------------------------------------- sessions

Cmds == {"quit", "begin", "commit", "query"}

\* Session.getNamespace: cc.manager.GetNamespace(cc.namespace).
LookupNamespace(namespace) ==
    IF namespace \in Names THEN GetNamespace(namespace) ELSE NoNs

\* c more Close calls and r more Recycle calls on every connection of set.
Release(cn, set, c, r) ==
    [i \in DOMAIN cn |->
        IF i \in set
        THEN [cn[i] EXCEPT !.closed = @ + c, !.recycled = @ + r]
        ELSE cn[i]]

\* SessionExecutor.rollback: the transaction's connections are rolled back
\* and recycled, IN_TRANS is cleared.
Rollback(se) == [se EXCEPT !.inTrans = FALSE, !.txConns = {}]

\* Mutant: Close rolls back and quits the keep-session connections, and
\* leaves the session and its socket open.
TeardownLeavesOpen(se) ==
    [Rollback(se) EXCEPT !.ksConns = {}, !.teardowns = @ + 1]

\* Session.Close past its IsClosed test: closed.Store(true), executor.rollback,
\* executor.handleKsQuit, c.Close, on the session ...
Teardown(se) ==
    [Rollback(se) EXCEPT !.closed = TRUE, !.ksConns = {}, !.teardowns = @ + 1]

\* ... and on its backend connections.
TeardownConns(se, cn) == Release(Release(cn, se.txConns, 0, 1), se.ksConns, 1, 1)

\* Session.Close called by the goroutine that runs the session.
CloseSession(se) == IF se.closed THEN se ELSE Teardown(se)

CloseConns(se, cn) == IF se.closed THEN cn ELSE TeardownConns(se, cn)

Step(s, se, cn) ==
    /\ sess' = [sess EXCEPT ![s] = se]
    /\ conns' = cn
    /\ UNCHANGED <<statistics, bucket, call>>

\* mysql.CachingSHA2Password
CachingSHA2Password == "caching_sha2_password"

\* Mutant: with an empty plugin the classic check comes first.
SchemesClassicFirst(plugin, len, hashSucc, classicSucc) ==
    IF plugin = ""
    THEN IF len = 32 THEN <<"sha2">>
         ELSE IF classicSucc THEN <<"classic">> ELSE <<"classic", "hash">>
    ELSE IF plugin = CachingSHA2Password THEN <<"sha2">>
    ELSE <<"classic">>

\* handleHandshakeResponse, "check password": the checks made, in order, for
\* a plugin and a length of the auth response; hashSucc is the result of
\* CheckHashPassword.
Schemes(plugin, len, hashSucc, classicSucc) ==
    IF plugin = ""
    THEN IF len = 32 THEN <<"sha2">>
         ELSE IF hashSucc THEN <<"hash">> ELSE <<"hash", "classic">>
    ELSE IF plugin = CachingSHA2Password THEN <<"sha2">>
    ELSE <<"classic">>

\* handleHandshakeResponse on the user manager u: the error, the checks made,
\* the matched password and the namespace of the session.
handleHandshakeResponse(u, info) ==
    LET user   == info.User
        auth   == info.AuthResponse
        tried  == Schemes(info.AuthPlugin, auth.len,
                          UmCheck(u, user, "hash", auth).succ,
                          UmCheck(u, user, "classic", auth).succ)
        chk    == UmCheck(u, user, tried[Len(tried)], auth)
    IN  IF ~UmCheckUser(u, user)
        THEN [err |-> "ErrAccessDenied", tried |-> <<>>, password |-> <<>>,
              namespace |-> ""]
        ELSE IF ~chk.succ
        THEN [err |-> "ErrAccessDenied", tried |-> tried, password |-> <<>>,
              namespace |-> ""]
        ELSE IF ~info.collation
        THEN [err |-> "ErrInternal", tried |-> tried, password |-> chk.password,
              namespace |-> ""]
        ELSE [err |-> "nil", tried |-> tried, password |-> chk.password,
              namespace |-> UmGetNamespaceByUser(u, user, chk.password)]

\* Handshake: readHandshakeResponse gave info, handleHandshakeResponse; keep
\* is the session's keep-session mode.
HandshakeResponse(s, info, keep) ==
    /\ sess[s].pc = "accept"
    /\ LET se  == sess[s]
           res == handleHandshakeResponse(users[Current], info)
           seen == [se EXCEPT !.gInfo = [User |-> info.User,
                                         AuthPlugin |-> info.AuthPlugin,
                                         len |-> info.AuthResponse.len],
                              !.gTried = res.tried,
                              !.gPassword = res.password,
                              !.gChecks =
                                  IF res.password = <<>>
                                  THEN << [check |-> "auth", ok |-> FALSE] >>
                                  ELSE << [check |-> "auth", ok |-> TRUE],
                                          [check |-> "collation", ok |-> info.collation] >>]
       IN  IF res.err # "nil"
           THEN Step(s, [CloseSession(seen) EXCEPT !.hs = res.err, !.pc = "done"], conns)
           ELSE Step(s, [seen EXCEPT !.keep = keep, !.namespace = res.namespace,
                                     !.ns = LookupNamespace(res.namespace),
                                     !.pc = "limit"], conns)
    /\ UNCHANGED <<mgrVars, admVars, clientConnecions, counters, nextConn>>

\* A client of the mysql_native_password plugin that scrambled the clear
\* password auth, with a collation the proxy knows.
HandshakeAuth(s, user, auth, keep) ==
    HandshakeResponse(s, [User |-> user, AuthPlugin |-> "mysql_native_password",
                          AuthResponse |-> CalcPassword(auth), collation |-> TRUE],
                      keep)

\* Session.clientConnectionReachLimit
clientConnectionReachLimit(namespace) ==
    LET current == clientConnecions[namespace]
    IN  IF current = 0 THEN FALSE
        ELSE counters[current] >= LookupNamespace(namespace).max

\* Mutant: the connection cap is checked before the client's IP.
HandshakeChecksCapFirst(allowed, reached) ==
    IF reached
    THEN [err |-> "ErrConCount", checks |-> << [check |-> "cap", ok |-> FALSE] >>]
    ELSE IF ~allowed
    THEN [err |-> "ErrAccessDenied",
          checks |-> << [check |-> "cap", ok |-> TRUE], [check |-> "ip", ok |-> FALSE] >>]
    ELSE [err |-> "nil",
          checks |-> << [check |-> "cap", ok |-> TRUE], [check |-> "ip", ok |-> TRUE] >>]

\* Handshake after handleHandshakeResponse: IsAllowConnect, then
\* clientConnectionReachLimit; the error and the checks evaluated.
HandshakeChecks(allowed, reached) ==
    IF ~allowed
    THEN [err |-> "ErrAccessDenied", checks |-> << [check |-> "ip", ok |-> FALSE] >>]
    ELSE IF reached
    THEN [err |-> "ErrConCount",
          checks |-> << [check |-> "ip", ok |-> TRUE], [check |-> "cap", ok |-> FALSE] >>]
    ELSE [err |-> "nil",
          checks |-> << [check |-> "ip", ok |-> TRUE], [check |-> "cap", ok |-> TRUE] >>]

\* Handshake after handleHandshakeResponse: IsAllowConnect, the connection
\* cap, writeOK.  allowed is IsClientIPAllowed's answer, ok the write's fate.
HandshakeLimit(s, allowed, ok) ==
    /\ sess[s].pc = "limit"
    /\ LET se  == sess[s]
           res == HandshakeChecks(allowed, clientConnectionReachLimit(se.namespace))
           chk == [se EXCEPT !.gChecks = @ \o res.checks]
           failed(e, why) == [CloseSession(e) EXCEPT !.hs = why, !.pc = "done"]
       IN  IF LookupNamespace(se.namespace) = NoNs
           THEN Step(s, failed(se, "panic"), conns)
           ELSE IF res.err # "nil"
           THEN Step(s, failed(chk, res.err), conns)
           ELSE IF ~ok
           THEN Step(s, failed(chk, "writeError"), conns)
           ELSE Step(s, [chk EXCEPT !.hs = "OK", !.pc = "incr"], conns)
    /\ UNCHANGED <<mgrVars, admVars, clientConnecions, counters, nextConn>>

\* Run: IncrConnectionCount, the Load ...
IncrConnectionLoad(s) ==
    /\ sess[s].pc = "incr"
    /\ Step(s, [sess[s] EXCEPT !.ctr = clientConnecions[sess[s].namespace],
                               !.pc = "incr2"], conns)
    /\ UNCHANGED <<mgrVars, admVars, clientConnecions, counters, nextConn>>

\* ... and the Store of a new counter holding 1, or the Inc of the loaded one.
IncrConnectionApply(s) ==
    /\ sess[s].pc = "incr2"
    /\ LET se == sess[s]
       IN  /\ IF se.ctr = 0
              THEN /\ counters' = Append(counters, 1)
                   /\ clientConnecions' =
                          [clientConnecions EXCEPT ![se.namespace] = Len(counters) + 1]
              ELSE /\ counters' = [counters EXCEPT ![se.ctr] = @ + 1]
                   /\ UNCHANGED clientConnecions
           /\ Step(s, [se EXCEPT !.ctr = 0, !.pc = "loop"], conns)
    /\ UNCHANGED <<mgrVars, admVars, nextConn>>

\* Run, loop head: leave when closed, else snapshot the executor's
\* namespaceChangeIndex (a nil namespace panics into the deferred function).
RunLoopTop(s) ==
    /\ sess[s].pc = "loop"
    /\ LET se == sess[s]
       IN  IF se.closed
           THEN Step(s, [se EXCEPT !.pc = "deferred"], conns)
           ELSE IF se.ns = NoNs
           THEN Step(s, [se EXCEPT !.gPanic = "run", !.pc = "deferred"], conns)
           ELSE Step(s, [se EXCEPT !.nsOld = se.ns.idx, !.gPanic = "none",
                                   !.nRecycled = 0,
                                   !.nMetrics = 0,
                                   !.gStart = 0, !.gKs = {},
                                   !.gInTx = FALSE, !.gSwapped = FALSE,
                                   !.gExecuted = FALSE, !.gWriteErr = FALSE,
                                   !.gDone = FALSE, !.cmd = "none", !.rs = "none",
                                   !.gErrPackets = 0, !.gSent = FALSE, !.piece = 0,
                                   !.gQps = NoQps,
                                   !.sql = <<>>, !.rsMore = FALSE,
                                   !.gRun = <<>>, !.gFlags = <<>>,
                                   !.pc = "read"], conns)
    /\ UNCHANGED <<mgrVars, admVars, clientConnecions, counters, nextConn>>

\* Session.clearKsConns, its condition; mgrNs is cc.getNamespace().
clearKsConnsCond(se, mgrNs, nsChangeIndex) ==
    se.keep /\ mgrNs.idx > nsChangeIndex /\ ~se.inTrans

\* Session.clearKsConns dereferences a nil namespace of a keep-session client.
clearKsConnsPanics(se, mgrNs) == se.keep /\ mgrNs = NoNs

\* Session.clearKsConns
clearKsConns(se, mgrNs, nsChangeIndex) ==
    IF clearKsConnsCond(se, mgrNs, nsChangeIndex)
    THEN [se EXCEPT !.ksConns = {}] ELSE se

clearKsConnsRelease(se, cn, mgrNs, nsChangeIndex) ==
    IF clearKsConnsCond(se, mgrNs, nsChangeIndex)
    THEN Release(cn, se.ksConns, 1, 1) ELSE cn

\* SessionExecutor.SetContextNamespace: the instance the manager resolves now.
SetContextNamespace(se) == LookupNamespace(se.namespace)

\* Run: ReadEphemeralPacket returned c, or failed ("err"); a closed socket
\* only fails.  tw.Add registers cc.Close with the timeout wheel.
RunRead(s, c) ==
    /\ sess[s].pc = "read"
    /\ LET se    == sess[s]
           mgrNs == LookupNamespace(se.namespace)
           ns    == SetContextNamespace(se)
       IN  IF c = "err"
           THEN IF clearKsConnsPanics(se, mgrNs)
                THEN Step(s, [se EXCEPT !.gPanic = "run", !.pc = "deferred"], conns)
                ELSE LET cl == clearKsConns(se, mgrNs, se.nsOld)
                         cn == clearKsConnsRelease(se, conns, mgrNs, se.nsOld)
                     IN  Step(s, [CloseSession(cl) EXCEPT !.pc = "deferred"],
                              CloseConns(cl, cn))
           ELSE /\ se.nReq < MaxRequests
                /\ ~se.closed
                /\ Step(s, [se EXCEPT !.cmd = c, !.ns = ns, !.nReq = @ + 1,
                                      !.tw = IF se.tw = "closing" THEN "closing"
                                             ELSE "armed",
                                      !.gStart = mgrNs.id, !.gKs = se.ksConns,
                                      !.gInTx = se.inTrans,
                                      !.gSwapped = (mgrNs.idx > se.nsOld),
                                      !.pc = "clearks"], conns)
    /\ UNCHANGED <<mgrVars, admVars, clientConnecions, counters, nextConn>>

\* Run: clearKsConns(nsChangeIndexOld) before the command is dispatched.
RunClearKs(s) ==
    /\ sess[s].pc = "clearks"
    /\ LET se    == sess[s]
           mgrNs == LookupNamespace(se.namespace)
       IN  IF clearKsConnsPanics(se, mgrNs)
           THEN Step(s, [se EXCEPT !.gPanic = "run", !.pc = "deferred"], conns)
           ELSE Step(s, [clearKsConns(se, mgrNs, se.nsOld) EXCEPT !.pc = "exec"],
                     clearKsConnsRelease(se, conns, mgrNs, se.nsOld))
    /\ UNCHANGED <<mgrVars, admVars, clientConnecions, counters, nextConn>>

\* Mutant: the test clearKsConns makes, copied into the veto.
shouldClearNotInTransaction(se, nsChangeIndex) ==
    se.keep /\ ~se.inTrans /\ se.ns.idx > nsChangeIndex

\* Session.shouldClearKsAndCloseSession
shouldClearKsAndCloseSession(se, nsChangeIndex) ==
    se.keep /\ se.inTrans /\ se.ns.idx > nsChangeIndex

\* Whether the command takes a new backend connection from a pool.
NeedsConn(se, cmd) ==
    /\ cmd = "query"
    /\ se.ns # NoNs
    /\ IF se.keep THEN se.ksConns = {}
       ELSE IF se.inTrans THEN se.txConns = {} ELSE TRUE

\* Mutant: autocommit=1 clears IN_TRANS and keeps the connections in txConns.
handleSetAutoCommitKeepsTxConns(se, autocommit, fails) ==
    IF autocommit
    THEN [se EXCEPT !.autocommit = TRUE, !.inTrans = FALSE,
                    !.rs = IF fails /\ se.txConns # {} THEN "ErrGeneric" ELSE "OK"]
    ELSE [se EXCEPT !.autocommit = FALSE, !.rs = "OK"]

\* SessionExecutor.handleSetAutoCommit on the executor; fails tells whether
\* SetAutoCommit(1) fails on a backend connection.
handleSetAutoCommit(se, autocommit, fails) ==
    IF autocommit
    THEN [se EXCEPT !.autocommit = TRUE, !.inTrans = FALSE, !.txConns = {},
                    !.rs = IF fails /\ se.txConns # {} THEN "ErrGeneric" ELSE "OK"]
    ELSE [se EXCEPT !.autocommit = FALSE, !.rs = "OK"]

\* Mutant: a connection whose SetAutoCommit(1) failed is not recycled.
handleSetAutoCommitConnsOnSuccess(se, cn, autocommit, fails) ==
    IF autocommit /\ ~fails THEN Release(cn, se.txConns, 0, 1) ELSE cn

\* SessionExecutor.handleSetAutoCommit on the backend connections: every
\* connection of txConns is recycled after SetAutoCommit(1), failed or not.
handleSetAutoCommitConns(se, cn, autocommit, fails) ==
    IF autocommit THEN Release(cn, se.txConns, 0, 1) ELSE cn

\* What the executor makes of a statement: it runs, or it fails with an error
\* of one of the three kinds writeResponse tells apart.
Outcomes == {"ok", "ErrGeneric", "ErrSessionCloseResp", "ErrSessionCloseNoResp"}

\* SessionExecutor.handleKeepSessionPing, its result: mysql.ErrBadConn when
\* the ping of a connection of ksConns fails.  ksConns is left as it is.
handleKeepSessionPing(se, fails) ==
    IF fails /\ se.ksConns # {} THEN "ErrBadConn" ELSE "OK"

\* handleKeepSessionPing on the backend connections: the connection whose
\* ping failed is closed; then every connection of ksConns is closed when in
\* a transaction, and recycled.
handleKeepSessionPingConns(se, cn, fails) ==
    IF fails /\ se.ksConns # {}
    THEN LET failed == CHOOSE c \in se.ksConns : TRUE
         IN  Release(Release(cn, {failed}, 1, 0), se.ksConns,
                     IF se.inTrans THEN 1 ELSE 0, 1)
    ELSE cn

\* Mutant: handleQuery has no deferred recover, and the panic is the result.
handleQueryNoRecover(out) == out

\* SessionExecutor.handleQuery, its deferred function: a panic of the query
\* handling is recovered and returned as the error
\* "internal server error:<panic>"; any other outcome is returned as it is.
handleQueryRecover(out) == IF out = "panic" THEN "ErrInternal" ELSE out

\* SessionExecutor.ExecuteCommand on the session ...
ExecuteCommand(se, cmd, next, out) ==
    IF cmd = "quit" THEN [Rollback(se) EXCEPT !.rs = "Noop"]
    ELSE IF cmd = "ping"
    THEN [se EXCEPT !.rs = IF se.keep THEN handleKeepSessionPing(se, out # "ok")
                           ELSE "OK"]
    ELSE IF se.ns = NoNs THEN [se EXCEPT !.rs = "ErrInternal"]
    ELSE IF cmd = "begin" THEN [se EXCEPT !.inTrans = TRUE, !.rs = "OK"]
    ELSE IF cmd = "commit" THEN [Rollback(se) EXCEPT !.rs = "OK"]
    ELSE IF cmd \in {"set0", "set1"}
    THEN handleSetAutoCommit(se, cmd = "set1", out # "ok")
    ELSE IF out # "ok"
    THEN [se EXCEPT !.rs = handleQueryRecover(out),
                    !.gPanic = IF out = "panic" THEN "query" ELSE @]
    ELSE IF ~NeedsConn(se, cmd) THEN [se EXCEPT !.rs = "Result"]
    ELSE IF se.keep THEN [se EXCEPT !.ksConns = {next}, !.rs = "Result"]
    ELSE IF se.inTrans THEN [se EXCEPT !.txConns = {next}, !.rs = "Result"]
    ELSE [se EXCEPT !.continueConn = {next}, !.rs = "Result"]

\* ... and on the backend connections: quit and commit recycle txConns.
ExecuteRelease(se, cn, cmd, out) ==
    IF cmd = "quit" THEN Release(cn, se.txConns, 0, 1)
    ELSE IF cmd = "ping"
    THEN IF se.keep THEN handleKeepSessionPingConns(se, cn, out # "ok") ELSE cn
    ELSE IF se.ns # NoNs /\ cmd = "commit" THEN Release(cn, se.txConns, 0, 1)
    ELSE IF se.ns # NoNs /\ cmd \in {"set0", "set1"}
    THEN handleSetAutoCommitConns(se, cn, cmd = "set1", out # "ok")
    ELSE cn

\* A pool of namespace instance id hands out connection next.
Acquire(cn, next, id) == [cn EXCEPT ![next].ns = id]

\* Mutant: with supportLimitTx only the queries of a transaction are limited.
handleQueryLimitTxOnly(q, inTx) ==
    IF q.limit > 0 /\ q.supportLimitTx /\ inTx /\ ~q.token
    THEN "ErrClientQpsLimitedClose"
    ELSE IF q.limit > 0 /\ ~q.supportLimitTx /\ ~inTx /\ ~q.token
    THEN "ErrClientQpsLimited"
    ELSE "ok"

\* SessionExecutor.handleQuery, the QPS limit: the session-closing
\* ErrClientQpsLimited, the plain one, or "ok" when the query goes on to
\* doQuery.
handleQueryLimit(q, inTx) ==
    IF q.limit > 0 /\ q.supportLimitTx /\ ~q.token
    THEN IF inTx THEN "ErrClientQpsLimitedClose" ELSE "ErrClientQpsLimited"
    ELSE IF q.limit > 0 /\ ~q.supportLimitTx /\ ~inTx /\ ~q.token
    THEN "ErrClientQpsLimited"
    ELSE "ok"

\* Mutant: Run loops without writing the response of the command.
RunAfterExecLoops(rs) == "loop"

\* Run: the response execCommand returned is handed to writeResponse before
\* the loop goes on.
RunAfterExec(rs) == "write"

\* Mutant: Run recycles the read packet whatever the flag says.
RunRecycleAlways(se) ==
    [se EXCEPT !.hasRecycledReadPacket = FALSE, !.nRecycled = @ + 1]

\* Run, after execCommand: if !hasRecycledReadPacket.CompareAndSwap(true,
\* false) { RecycleReadPacket() }.  nRecycled counts the RecycleReadPacket
\* calls made for the packet read last.
RunRecycle(se) ==
    IF se.hasRecycledReadPacket
    THEN [se EXCEPT !.hasRecycledReadPacket = FALSE]
    ELSE [se EXCEPT !.nRecycled = @ + 1]

\* doMultiStmts, its first lines: if hasRecycledReadPacket.CompareAndSwap(
\* false, true) { RecycleReadPacket() }.
doMultiStmtsRecycle(se) ==
    IF se.hasRecycledReadPacket THEN se
    ELSE [se EXCEPT !.hasRecycledReadPacket = TRUE, !.nRecycled = @ + 1]

\* SessionExecutor.handleQuery, its last statement before the return: the
\* call of Manager.RecordSessionSQLMetrics, which a panic in the statements
\* before it skips (the deferred function only sets the error).  nMetrics
\* counts the calls made for the command.
handleQueryRecords(se, cmd, panicked) ==
    IF cmd \in {"query", "multi"} /\ ~panicked THEN [se EXCEPT !.nMetrics = @ + 1] ELSE se

\* Session.execCommand: the veto, or the dispatch.
RunExec(s, q, out) ==
    /\ sess[s].pc = "exec"
    /\ sess[s].cmd # "multi"
    /\ LET se   == sess[s]
           veto == shouldClearKsAndCloseSession(se, se.nsOld)
           lim  == IF se.cmd = "query" THEN handleQueryLimit(q, se.inTrans) ELSE "ok"
           res  == IF lim # "ok" THEN lim ELSE out
           took == ~veto /\ res = "ok" /\ NeedsConn(se, se.cmd)
           ex   == handleQueryRecords(ExecuteCommand(se, se.cmd, nextConn, res), se.cmd,
                                      se.ns = NoNs \/ res = "panic")
       IN  /\ took => nextConn <= MaxConns
           /\ nextConn' = IF took THEN nextConn + 1 ELSE nextConn
           /\ IF veto
              THEN Step(s, [RunRecycle(se) EXCEPT !.rs = "ErrTxNsChanged",
                                      !.pc = RunAfterExec("ErrTxNsChanged")], conns)
              ELSE Step(s, [RunRecycle(ex) EXCEPT !.gExecuted = TRUE,
                                      !.gQps = IF se.cmd = "query" /\ se.ns # NoNs
                                               THEN q ELSE NoQps,
                                      !.pc = RunAfterExec(ex.rs)],
                        IF took THEN Acquire(ExecuteRelease(se, conns, se.cmd, res),
                                             nextConn, se.ns.id)
                                ELSE ExecuteRelease(se, conns, se.cmd, res))
    /\ UNCHANGED <<mgrVars, admVars, clientConnecions, counters>>

\* The dynamic type of the error a RespError response carries.
ErrorKind(rs) ==
    IF rs \in {"ErrTxNsChanged", "ErrSessionCloseResp", "ErrClientQpsLimitedClose"}
    THEN "SessionCloseRespError"
    ELSE IF rs = "ErrSessionCloseNoResp" THEN "SessionCloseNoRespError"
    ELSE IF rs \in {"ErrInternal", "ErrGeneric", "ErrClientQpsLimited", "ErrBadConn",
                    "ErrUnknown", "ErrNoDB", "ErrUnknownCharacterSet"}
    THEN "error"
    ELSE "none"

\* Mutant: a SessionCloseRespError is written like any other error and the
\* result of the write is returned.
writeResponseReturnsWrite(rs, wrote) ==
    IF ErrorKind(rs) \in {"SessionCloseRespError", "error"}
    THEN [err |-> ~wrote, errPackets |-> 1, sends |-> TRUE]
    ELSE IF ErrorKind(rs) = "SessionCloseNoRespError"
    THEN [err |-> TRUE, errPackets |-> 0, sends |-> FALSE]
    ELSE IF rs = "Noop" THEN [err |-> FALSE, errPackets |-> 0, sends |-> FALSE]
    ELSE [err |-> ~wrote, errPackets |-> 0, sends |-> TRUE]

\* Session.writeResponse, the type switch: whether an error is returned, the
\* number of writeErrorPacket calls, and whether anything is sent at all;
\* wrote is the fate of the socket write.
writeResponse(rs, wrote) ==
    IF ErrorKind(rs) = "SessionCloseRespError"
    THEN [err |-> TRUE, errPackets |-> 1, sends |-> TRUE]
    ELSE IF ErrorKind(rs) = "SessionCloseNoRespError"
    THEN [err |-> TRUE, errPackets |-> 0, sends |-> FALSE]
    ELSE IF ErrorKind(rs) = "error"
    THEN [err |-> ~wrote, errPackets |-> 1, sends |-> TRUE]
    ELSE IF rs = "Noop" THEN [err |-> FALSE, errPackets |-> 0, sends |-> FALSE]
    ELSE [err |-> ~wrote, errPackets |-> 0, sends |-> TRUE]

\* Mutant: the response is written and continueConn is left as it is.
recycleContinueConnSkipped(cn, continueConn) == cn

\* Session.writeResponse, its deferred function:
\* recycleBackendConn(cc.continueConn).
recycleContinueConn(cn, continueConn) == Release(cn, continueConn, 0, 1)

\* The statements a multi-statement query is split into.
Pieces == {"query", "begin", "commit"}

\* The number of statements of a multi-statement query.
StmtsNum == 2

\* The texts of a multi-statement query: parser.SplitStatementToPieces gives
\* the pieces in the order of the text.
MultiTexts == [1..StmtsNum -> Pieces]

\* Mutant: the flag of an intermediate result is stored in the executor's
\* status.
MultiResponseSetsStatus(se) == [se EXCEPT !.rsMore = TRUE, !.more = TRUE]

\* doMultiStmts: CreateResultResponse(se.status|ServerMoreResultsExists, r,
\* false), the response of a piece that is not the last.
MultiResponse(se) == [se EXCEPT !.rsMore = TRUE]

\* Mutant: the loop of doMultiStmts goes on after a piece that failed.
doMultiStmtsWritesAnyway(rs, index) == index < StmtsNum - 1

\* doMultiStmts, the loop body after doQuery on the piece at index (from 0):
\* an error is returned at once, and the result of a piece that is not the
\* last is written to the client before the loop goes on.
doMultiStmtsWrites(rs, index) == ErrorKind(rs) = "none" /\ index < StmtsNum - 1

\* Session.execCommand on a multi-statement query: the veto, or handleQuery
\* and doMultiStmts up to the next response.  sql is the text of the query,
\* split when doMultiStmts starts; the loop runs doQuery on the pieces by
\* index, and a piece that is not the last has its result written by
\* doMultiStmts.
RunExecMulti(s, sql, out) ==
    /\ sess[s].pc = "exec"
    /\ sess[s].cmd = "multi"
    /\ sess[s].piece > 0 => sql = sess[s].sql
    /\ LET se   == sess[s]
           veto == se.piece = 0 /\ shouldClearKsAndCloseSession(se, se.nsOld)
           stmt == sql[se.piece + 1]
           ran  == ~veto /\ se.ns # NoNs
           took == ~veto /\ out = "ok" /\ NeedsConn(se, stmt)
           se0  == IF ran /\ se.piece = 0 THEN doMultiStmtsRecycle(se) ELSE se
           ex   == [ExecuteCommand(se0, stmt, nextConn, out)
                       EXCEPT !.gExecuted = TRUE,
                              !.sql = IF ran THEN sql ELSE se.sql,
                              !.gRun = IF ran THEN Append(se.gRun, stmt) ELSE se.gRun,
                              !.rsMore = se.more,
                              !.piece = @ + 1]
       IN  /\ took => nextConn <= MaxConns
           /\ nextConn' = IF took THEN nextConn + 1 ELSE nextConn
           /\ IF veto
              THEN Step(s, [RunRecycle(se) EXCEPT !.rs = "ErrTxNsChanged",
                                      !.pc = RunAfterExec("ErrTxNsChanged")], conns)
              ELSE Step(s, IF doMultiStmtsWrites(ex.rs, se.piece)
                           THEN [MultiResponse(ex) EXCEPT !.pc = "mwrite"]
                           ELSE [handleQueryRecords(RunRecycle(ex), se.cmd,
                                                    se.ns = NoNs \/ out = "panic")
                                    EXCEPT !.pc = RunAfterExec(ex.rs)],
                        IF took THEN Acquire(ExecuteRelease(se, conns, stmt, out),
                                             nextConn, se.ns.id)
                                ELSE ExecuteRelease(se, conns, stmt, out))
    /\ UNCHANGED <<mgrVars, admVars, clientConnecions, counters>>

\* doMultiStmts writing the result of a piece that is not the last: a failed
\* write closes the session and makes the error the response of the command;
\* a panic of the streamed write is recovered by handleQuery.
RunMultiWrite(s, ok) ==
    /\ sess[s].pc = "mwrite"
    /\ LET se     == sess[s]
           mgrNs  == LookupNamespace(se.namespace)
           stream == se.rs = "Result" /\ se.continueConn # {}
           cn     == recycleContinueConn(conns, se.continueConn)
           wrote  == ok /\ ~se.closed
           res    == writeResponse(se.rs, wrote)
           wr     == [se EXCEPT !.continueConn = {}]
       IN  IF stream /\ mgrNs = NoNs
           THEN Step(s, [RunRecycle(wr) EXCEPT !.rs = "ErrInternal", !.pc = "write"], cn)
           ELSE IF res.err
           THEN Step(s, [handleQueryRecords(RunRecycle(CloseSession(wr)), se.cmd, FALSE)
                            EXCEPT !.rs = "ErrGeneric", !.pc = "write"],
                     CloseConns(wr, cn))
           ELSE Step(s, [wr EXCEPT !.gFlags = Append(@, se.rsMore), !.pc = "exec"], cn)
    /\ UNCHANGED <<mgrVars, admVars, clientConnecions, counters, nextConn>>

\* Session.writeResponse and what Run does with its result; ok is the fate of
\* the socket write.  A streamed result asks the manager for the namespace's
\* max result size, and the deferred recycleBackendConn(continueConn) runs on
\* every path.
RunWrite(s, ok) ==
    /\ sess[s].pc = "write"
    /\ LET se     == sess[s]
           mgrNs  == LookupNamespace(se.namespace)
           stream == se.rs = "Result" /\ se.continueConn # {}
           cn     == recycleContinueConn(conns, se.continueConn)
           wrote  == ok /\ ~se.closed
           res    == writeResponse(se.rs, wrote)
           wr     == [se EXCEPT !.continueConn = {},
                                !.gErrPackets = res.errPackets,
                                !.gSent = res.sends /\ wrote,
                                !.gFlags = IF se.cmd = "multi" /\ wrote
                                              /\ ErrorKind(se.rs) = "none"
                                           THEN Append(@, se.rsMore) ELSE @]
           failed == res.err
       IN  IF stream /\ mgrNs = NoNs
           THEN Step(s, [se EXCEPT !.continueConn = {}, !.gPanic = "run",
                                   !.pc = "deferred"], cn)
           ELSE IF ~failed
           THEN Step(s, [wr EXCEPT !.nResp = @ + 1, !.pc = "post"], cn)
           ELSE IF clearKsConnsPanics(wr, mgrNs)
           THEN Step(s, [wr EXCEPT !.gWriteErr = TRUE, !.gPanic = "run",
                                   !.pc = "deferred"], cn)
           ELSE LET cl == clearKsConns(wr, mgrNs, wr.nsOld)
                    cr == clearKsConnsRelease(wr, cn, mgrNs, wr.nsOld)
                IN  Step(s, [CloseSession(cl) EXCEPT !.gWriteErr = TRUE, !.gDone = TRUE,
                                                     !.pc = "deferred"],
                         CloseConns(cl, cr))
    /\ UNCHANGED <<mgrVars, admVars, clientConnecions, counters, nextConn>>

\* Run, after a successful write: cmd == ComQuit ||
\* shouldClearKsAndCloseSession(nsChangeIndexOld) closes the session.
RunPost(s) ==
    /\ sess[s].pc = "post"
    /\ LET se == sess[s]
       IN  IF ~(se.cmd # "quit" /\ ~shouldClearKsAndCloseSession(se, se.nsOld))
           THEN Step(s, [CloseSession(se) EXCEPT !.gDone = TRUE, !.pc = "loop"],
                     CloseConns(se, conns))
           ELSE Step(s, [se EXCEPT !.gDone = TRUE, !.pc = "loop"], conns)
    /\ UNCHANGED <<mgrVars, admVars, clientConnecions, counters, nextConn>>

\* Run's deferred function: Close, tw.Remove (which cannot stop a callback
\* that is already running), DescConnectionCount.
RunDeferred(s) ==
    /\ sess[s].pc = "deferred"
    /\ LET se == sess[s]
           current == clientConnecions[se.namespace]
       IN  /\ Step(s, [CloseSession(se) EXCEPT
                           !.tw = IF se.tw = "closing" THEN "closing" ELSE "off",
                           !.nCleanup = @ + 1,
                           !.pc = "done"],
                   CloseConns(se, conns))
           /\ counters' = IF current = 0 THEN counters
                          ELSE [counters EXCEPT ![current] = @ - 1]
    /\ UNCHANGED <<mgrVars, admVars, clientConnecions, nextConn>>

\* The timeout wheel fires for the session: its goroutine enters cc.Close and
\* makes the IsClosed test ...
TimeoutFire(s) ==
    /\ sess[s].tw = "armed"
    /\ Step(s, [sess[s] EXCEPT !.tw = IF sess[s].closed THEN "off" ELSE "closing"],
            conns)
    /\ UNCHANGED <<mgrVars, admVars, clientConnecions, counters, nextConn>>

\* ... and, having found the session open, tears it down.
TimeoutClose(s) ==
    /\ sess[s].tw = "closing"
    /\ Step(s, [Teardown(sess[s]) EXCEPT !.tw = "off"], TeardownConns(sess[s], conns))
    /\ UNCHANGED <<mgrVars, admVars, clientConnecions, counters, nextConn>>

\* ------------------------------------------------------------- statistics

\* SQLExecTimeSize, the capacity of sQLExecTimeChan (5000 in the source).
SQLExecTimeSize == 2

\* The other variables of a step of the statistics.
StatStep(st) ==
    /\ statistics' = st
    /\ UNCHANGED <<mgrVars, admVars, sess, clientConnecions, counters, conns, nextConn,
                   bucket, call>>

\* recordBackendSQLTiming up to its select: the switch is read without
\* synchronisation, so seen is any value it has been given; with the switch
\* seen off the call returns.
RecordCheck(r, namespace, seen) ==
    /\ statistics.rec[r].pc = "idle"
    /\ seen \in statistics.SQLResponsePercentile[namespace].gWritten
    /\ StatStep([statistics EXCEPT
                     !.rec[r] = [pc |-> IF seen THEN "select" ELSE "idle",
                                 namespace |-> namespace]])

\* recordBackendSQLTiming, the select: the send goes through as soon as the
\* channel has room.
RecordSend(r) ==
    /\ statistics.rec[r].pc = "select"
    /\ LET n == statistics.rec[r].namespace
       IN  /\ statistics.SQLResponsePercentile[n].sQLExecTimeChan < SQLExecTimeSize
           /\ StatStep([statistics EXCEPT
                            !.SQLResponsePercentile[n].sQLExecTimeChan = @ + 1,
                            !.rec[r].pc = "idle"])

\* Mutant: a send that times out leaves the switch on.
RecordTimedOutKeepsSwitch(resp) == [resp EXCEPT !.gOff = TRUE]

\* recordBackendSQLTiming, case <-time.After(time.Millisecond).
RecordTimedOut(resp) ==
    [resp EXCEPT !.sqlExecTimeRecordSwitch = FALSE, !.gOff = TRUE,
                 !.gWritten = @ \cup {FALSE}]

\* recordBackendSQLTiming, the select: with the channel full for a
\* millisecond the timer wins.
RecordTimeout(r) ==
    /\ statistics.rec[r].pc = "select"
    /\ LET n == statistics.rec[r].namespace
       IN  /\ statistics.SQLResponsePercentile[n].sQLExecTimeChan = SQLExecTimeSize
           /\ StatStep([statistics EXCEPT
                            !.SQLResponsePercentile[n] = RecordTimedOut(@),
                            !.rec[r].pc = "idle"])

\* CalcAvgSQLTimes is called by the ticker of Manager.startConnectPoolMetricsTask.
CalcStart ==
    /\ statistics.calc.pc = "idle"
    /\ StatStep([statistics EXCEPT !.calc = [@ EXCEPT !.pc = "range", !.todo = Names,
                                                     !.gOn = {}]])

\* CalcAvgSQLTimes, for ns, sQLResponse := range s.SQLResponsePercentile.
CalcRange(ns) ==
    /\ statistics.calc.pc = "range"
    /\ ns \in statistics.calc.todo
    /\ StatStep([statistics EXCEPT !.calc = [@ EXCEPT !.pc = "drain", !.ns = ns,
                                                     !.todo = @ \ {ns},
                                                     !.len = 0, !.quit = FALSE]])

\* CalcAvgSQLTimes returns when the range is over.
CalcReturn ==
    /\ statistics.calc.pc = "range"
    /\ statistics.calc.todo = {}
    /\ StatStep([statistics EXCEPT !.calc.pc = "idle"])

\* CalcAvgSQLTimes: len(sqlTimesMicro) >= SQLExecTimeSize ends the drain.
CalcQuit(len) == len >= SQLExecTimeSize

\* CalcAvgSQLTimes, for !quit { select ... }: a sample is taken from the
\* channel and appended, or the channel stays empty for a millisecond.
CalcDrain ==
    /\ statistics.calc.pc = "drain"
    /\ ~statistics.calc.quit
    /\ LET n == statistics.calc.ns
           c == statistics.calc
       IN  IF statistics.SQLResponsePercentile[n].sQLExecTimeChan > 0
           THEN StatStep([statistics EXCEPT
                             !.SQLResponsePercentile[n].sQLExecTimeChan = @ - 1,
                             !.SQLResponsePercentile[n].gOff = FALSE,
                             !.calc = [c EXCEPT !.quit = CalcQuit(c.len),
                                                !.len = c.len + 1]])
           ELSE StatStep([statistics EXCEPT !.calc.quit = TRUE])

\* CalcAvgSQLTimes, after the drain: the percentiles are stored and
\* sqlExecTimeRecordSwitch = true, with or without samples.
CalcSwitchOn ==
    /\ statistics.calc.pc = "drain"
    /\ statistics.calc.quit
    /\ LET n == statistics.calc.ns
       IN  StatStep([statistics EXCEPT
                        !.SQLResponsePercentile[n].sqlExecTimeRecordSwitch = TRUE,
                        !.SQLResponsePercentile[n].gOff = FALSE,
                        !.SQLResponsePercentile[n].gWritten = @ \cup {TRUE},
                        !.calc.gOn = @ \cup {n},
                        !.calc.pc = "range"])

\* ------------------------------------------------------------- bucketpool

\* The largest maxSize a pool is made with; Get is asked for sizes up to one
\* more.
MaxBufSize == 5

\* The buffers a caller holds at a time, and those a sync.Pool keeps.
MaxHeld == 1

\* bits.Len64
RECURSIVE Len64(_)
Len64(x) == IF x = 0 THEN 0 ELSE 1 + Len64(x \div 2)

\* (div & (div-1)) == 0: div is zero or a power of two.
RECURSIVE OneBitAtMost(_)
OneBitAtMost(div) ==
    IF div <= 1 THEN TRUE
    ELSE IF div % 2 = 1 THEN FALSE ELSE OneBitAtMost(div \div 2)

\* makeSlicePointer
makeSlicePointer(size) == [len |-> size, cap |-> size]

\* New, its loop: the sizes of the buckets, from curSize on.
RECURSIVE BucketSizes(_, _)
BucketSizes(curSize, maxSize) ==
    IF curSize < maxSize THEN <<curSize>> \o BucketSizes(curSize * 2, maxSize)
    ELSE <<maxSize>>

\* Mutant: the bucket is bits.Len64(div) whatever div is.
findPoolNoExact(p, size) ==
    IF size > p.maxSize THEN 0
    ELSE Len64(size \div p.minSize) + 1

\* Pool.findPool: the position in p.pools (from 1) of the bucket for size, 0
\* for nil.
findPool(p, size) ==
    IF size > p.maxSize THEN 0
    ELSE LET div == size \div p.minSize
             rem == size % p.minSize
             idx == Len64(div)
         IN  IF rem = 0 /\ div # 0 /\ OneBitAtMost(div) THEN idx ELSE idx + 1

\* The other variables of a step of the pool.
PoolStep(b) ==
    /\ bucket' = b
    /\ UNCHANGED <<mgrVars, admVars, sess, clientConnecions, counters, conns, nextConn,
                   statistics, call>>

\* bucketpool.New(minSize, maxSize)
PoolNew(minSize, maxSize) ==
    /\ ~bucket.made
    /\ maxSize >= minSize
    /\ LET sizes == BucketSizes(minSize, maxSize)
       IN  PoolStep([made |-> TRUE, minSize |-> minSize, maxSize |-> maxSize,
                     pools |-> [i \in 1..Len(sizes) |-> [size |-> sizes[i], pool |-> <<>>]],
                     held |-> <<>>, last |-> [op |-> "New"]])

\* Pool.Get(size); kept tells whether sync.Pool.Get hands out a buffer it
\* keeps or calls New.  A position beyond p.pools and a reslicing beyond the
\* capacity panic.
PoolGet(size, kept) ==
    /\ bucket.made
    /\ Len(bucket.held) < MaxHeld
    /\ LET sp == findPool(bucket, size)
       IN  IF sp = 0
           THEN /\ ~kept
                /\ PoolStep([bucket EXCEPT
                                 !.held = Append(@, makeSlicePointer(size)),
                                 !.last = [op |-> "Get", size |-> size, sp |-> 0,
                                           kept |-> FALSE, panic |-> FALSE,
                                           buf |-> makeSlicePointer(size)]])
           ELSE IF sp > Len(bucket.pools)
           THEN /\ ~kept
                /\ PoolStep([bucket EXCEPT
                                 !.last = [op |-> "Get", size |-> size, sp |-> sp,
                                           kept |-> FALSE, panic |-> TRUE,
                                           buf |-> makeSlicePointer(0)]])
           ELSE /\ kept => bucket.pools[sp].pool # <<>>
                /\ LET got == IF kept THEN Head(bucket.pools[sp].pool)
                                      ELSE makeSlicePointer(bucket.pools[sp].size)
                       buf == [got EXCEPT !.len = size]
                       rest == IF kept THEN Tail(bucket.pools[sp].pool)
                                       ELSE bucket.pools[sp].pool
                   IN  IF size > got.cap
                       THEN PoolStep([bucket EXCEPT
                                         !.pools[sp].pool = rest,
                                         !.last = [op |-> "Get", size |-> size, sp |-> sp,
                                                   kept |-> kept, panic |-> TRUE,
                                                   buf |-> got]])
                       ELSE PoolStep([bucket EXCEPT
                                         !.pools[sp].pool = rest,
                                         !.held = Append(@, buf),
                                         !.last = [op |-> "Get", size |-> size, sp |-> sp,
                                                   kept |-> kept, panic |-> FALSE,
                                                   buf |-> buf]])

\* Pool.Put(b), b a buffer Get returned; a sync.Pool that keeps MaxHeld
\* buffers drops the one it is given.
PoolPut(i) ==
    /\ bucket.made
    /\ i \in 1..Len(bucket.held)
    /\ LET b    == bucket.held[i]
           sp   == findPool(bucket, b.cap)
           left == [k \in 1..(Len(bucket.held) - 1) |->
                       IF k < i THEN bucket.held[k] ELSE bucket.held[k + 1]]
           full == [b EXCEPT !.len = b.cap]
       IN  IF sp = 0
           THEN PoolStep([bucket EXCEPT !.held = left,
                                        !.last = [op |-> "Put", sp |-> 0, buf |-> b]])
           ELSE IF sp > Len(bucket.pools)
           THEN PoolStep([bucket EXCEPT !.held = left,
                                        !.last = [op |-> "Put", sp |-> sp, buf |-> b]])
           ELSE PoolStep([bucket EXCEPT
                             !.held = left,
                             !.pools[sp].pool = IF Len(@) < MaxHeld
                                                THEN Append(@, full) ELSE @,
                             !.last = [op |-> "Put", sp |-> sp, buf |-> b]])

\* --------------------------------------------------------- checkRandomSQLs

\* The slices, dbs and SQL lists of the maps checkRandomSQLs is given.
SliceNames == {"slice0", "slice1"}
DbNames == {"db0", "db1"}
SqlLists == { <<"sql1">>, <<"sql1", "sql2">>, <<"sql2", "sql1">> }

\* map[string][]string and map[string]map[string][]string
DbMaps == UNION { [D -> SqlLists] : D \in SUBSET DbNames }
SliceMaps == UNION { [S -> DbMaps] : S \in SUBSET SliceNames }

\* sliceMatch, its second loop over b[i..]: a zero count ends it with false,
\* else the count goes down.
RECURSIVE sliceMatchLoop(_, _, _)
sliceMatchLoop(count, b, i) ==
    IF i > Len(b) THEN TRUE
    ELSE IF count[b[i]] = 0 THEN FALSE
    ELSE sliceMatchLoop([count EXCEPT ![b[i]] = @ - 1], b, i + 1)

\* Mutant: the two lists are compared in order.
sliceMatchOrdered(a, b) == a = b

\* sliceMatch: the lengths, then the counts of a used up by b.
sliceMatch(a, b) ==
    IF Len(a) # Len(b) THEN FALSE
    ELSE sliceMatchLoop([v \in Range(a) \cup Range(b) |->
                            Cardinality({k \in 1..Len(a) : a[k] = v})], b, 1)

\* The loop over actualDbMap: it breaks with allDbSQLMatch false at the first
\* db that randomDbMap lacks or holds with other SQLs, in whatever order the
\* map is ranged over.
allDbSQLMatch(randomDbMap, actualDbMap) ==
    \A db \in DOMAIN actualDbMap :
        /\ db \in DOMAIN randomDbMap
        /\ sliceMatch(randomDbMap[db], actualDbMap[db])

\* The loop over randomSqls, from index i: the first map that has the slice
\* and matches all its dbs sets foundSliceMatch.
RECURSIVE foundSliceMatch(_, _, _, _)
foundSliceMatch(randomSqls, slice, actualDbMap, i) ==
    IF i > Len(randomSqls) THEN FALSE
    ELSE IF slice \in DOMAIN randomSqls[i]
            /\ allDbSQLMatch(randomSqls[i][slice], actualDbMap)
    THEN TRUE
    ELSE foundSliceMatch(randomSqls, slice, actualDbMap, i + 1)

\* checkRandomSQLs: false at the first slice of actual without a match.
checkRandomSQLs(randomSqls, actual) ==
    \A slice \in DOMAIN actual : foundSliceMatch(randomSqls, slice, actual[slice], 1)

\* The expected data of TestCheckRandomSQLs in its second form: one map per
\* slice and db of the map m.
RECURSIVE SplitPairs(_, _)
SplitPairs(m, pairs) ==
    IF pairs = {} THEN <<>>
    ELSE LET pr == CHOOSE x \in pairs : TRUE
         IN  << [s \in {pr[1]} |-> [d \in {pr[2]} |-> m[pr[1]][pr[2]]]] >>
                 \o SplitPairs(m, pairs \ {pr})

SplitMap(m) ==
    SplitPairs(m, { pr \in SliceNames \X DbNames :
                       pr[1] \in DOMAIN m /\ pr[2] \in DOMAIN m[pr[1]] })

\* The other variables of a call.
CallStep(c) ==
    /\ call' = c
    /\ UNCHANGED <<mgrVars, admVars, sess, clientConnecions, counters, conns, nextConn,
                   statistics, bucket>>

\* checkRandomSQLs(randomSqls, actual), called once; whole is the map
\* randomSqls was taken from.
CallCheckRandomSQLs(randomSqls, whole, actual) ==
    /\ call.fn = "none"
    /\ CallStep([fn |-> "checkRandomSQLs", randomSqls |-> randomSqls, whole |-> whole,
              actual |-> actual, result |-> checkRandomSQLs(randomSqls, actual)])

\* ------------------------------------------------------- doQuery, one call

\* Queries an executor is given in one run.
MaxQueries == 2

\* The databases the namespace allows, and the names a USE may carry.
AllowedDBs == {"db1", "db2"}
UseNames == {"", "db1", "db2", "dbX"}

\* mysql.CollationNames, mysql.CollationNameToCharset and mysql.CharsetIds
\* for two character sets (the default collation of utf8 is utf8_general_ci).
CollationNames ==
    [n \in {"utf8_general_ci", "utf8_bin", "gbk_chinese_ci"} |->
        IF n = "utf8_general_ci" THEN 33 ELSE IF n = "utf8_bin" THEN 83 ELSE 28]
CollationNameToCharset ==
    [n \in {"utf8_general_ci", "utf8_bin", "gbk_chinese_ci"} |->
        IF n = "gbk_chinese_ci" THEN "gbk" ELSE "utf8"]
CharsetIds == [c \in {"utf8", "gbk"} |-> IF c = "utf8" THEN 33 ELSE 28]

\* What SET NAMES may name: a known or an unknown charset or the keyword
\* default, and a known or an unknown collation or none (ExtendValue nil).
NoCollation == "nil"
CharsetArgs == {"utf8", "gbk", "big5", "default"}
CollationArgs == {NoCollation, "utf8_general_ci", "utf8_bin", "gbk_chinese_ci", "nope_ci"}

\* The executor fields a query can change, after the handshake of a client
\* that named no database.
NewExecutor ==
    [db |-> "", txn |-> FALSE, charset |-> "utf8", collation |-> 33, closed |-> FALSE]

\* The namespace's default charset.
GetDefaultCharset == "gbk"

\* isSQLNotAllowedByUser: a write DML of a user who may only read.
isSQLNotAllowedByUser(allowWrite, stmtType) ==
    ~allowWrite /\ stmtType \in {"StmtInsert", "StmtUpdate", "StmtDelete"}

\* Mutant: a blacklisted statement is recorded, and let through.
checkSQLAllowedRecordsOnly(q) ==
    IF isSQLNotAllowedByUser(q.allowWrite, q.stmtType)
    THEN [err |-> "ErrGeneric", forbidden |-> 0]
    ELSE IF ~q.sqlAllowed THEN [err |-> "none", forbidden |-> 1]
    ELSE [err |-> "none", forbidden |-> 0]

\* checkSQLAllowed: the error, and the calls of RecordSQLForbidden made.
checkSQLAllowed(q) ==
    IF isSQLNotAllowedByUser(q.allowWrite, q.stmtType)
    THEN [err |-> "ErrGeneric", forbidden |-> 0]
    ELSE IF ~q.sqlAllowed THEN [err |-> "ErrUnknown", forbidden |-> 1]
    ELSE [err |-> "none", forbidden |-> 0]

\* canHandleWithoutPlan: the statement types that bypass the planner.
canHandleWithoutPlan(stmtType) ==
    stmtType \in {"StmtSet", "StmtBegin", "StmtUse", "StmtShow"}

\* Mutant: the database is switched before it is checked.
handleUseDBSetsFirst(ex, dbName) ==
    IF Len(dbName) = 0 THEN [ex |-> ex, err |-> "ErrGeneric"]
    ELSE IF dbName \in AllowedDBs THEN [ex |-> [ex EXCEPT !.db = dbName], err |-> "none"]
    ELSE [ex |-> [ex EXCEPT !.db = dbName], err |-> "ErrNoDB"]

\* SessionExecutor.handleUseDB
handleUseDB(ex, dbName) ==
    IF Len(dbName) = 0 THEN [ex |-> ex, err |-> "ErrGeneric"]
    ELSE IF dbName \in AllowedDBs THEN [ex |-> [ex EXCEPT !.db = dbName], err |-> "none"]
    ELSE [ex |-> ex, err |-> "ErrNoDB"]

\* Mutant: a collation of another charset is taken as given.
handleSetNamesAnyCollation(ex, value, extend) ==
    LET charset == IF value = "default" THEN GetDefaultCharset ELSE value
    IN  IF extend # NoCollation
        THEN IF extend \notin DOMAIN CollationNames
             THEN [ex |-> ex, err |-> "ErrUnknownCharacterSet"]
             ELSE [ex |-> [ex EXCEPT !.charset = charset,
                                     !.collation = CollationNames[extend]],
                   err |-> "none"]
        ELSE IF charset \notin DOMAIN CharsetIds
             THEN [ex |-> ex, err |-> "ErrUnknownCharacterSet"]
             ELSE [ex |-> [ex EXCEPT !.charset = charset, !.collation = CharsetIds[charset]],
                   err |-> "none"]

\* SessionExecutor.handleSetVariable, case "setnames": value is the charset
\* named and extend the collation named.
handleSetNames(ex, value, extend) ==
    LET charset == IF value = "default" THEN GetDefaultCharset ELSE value
    IN  IF extend # NoCollation
        THEN IF extend \notin DOMAIN CollationNames
             THEN [ex |-> ex, err |-> "ErrUnknownCharacterSet"]
             ELSE IF extend \notin DOMAIN CollationNameToCharset
             THEN [ex |-> ex, err |-> "ErrUnknownCharacterSet"]
             ELSE IF CollationNameToCharset[extend] # charset
             THEN [ex |-> ex, err |-> "ErrUnknownCharacterSet"]
             ELSE [ex |-> [ex EXCEPT !.charset = charset,
                                     !.collation = CollationNames[extend]],
                   err |-> "none"]
        ELSE IF charset \notin DOMAIN CharsetIds
             THEN [ex |-> ex, err |-> "ErrUnknownCharacterSet"]
             ELSE [ex |-> [ex EXCEPT !.charset = charset, !.collation = CharsetIds[charset]],
                   err |-> "none"]

\* SessionExecutor.handleQueryWithoutPlan: SHOW is answered before the parse;
\* a statement that does not parse is an error; SET NAMES, BEGIN and USE go
\* to their handlers.
handleQueryWithoutPlan(ex, q) ==
    IF q.stmtType = "StmtShow" THEN [ex |-> ex, err |-> "none"]
    ELSE IF ~q.parses THEN [ex |-> ex, err |-> "ErrGeneric"]
    ELSE IF q.stmtType = "StmtSet" THEN handleSetNames(ex, q.value, q.extend)
    ELSE IF q.stmtType = "StmtBegin" THEN [ex |-> [ex EXCEPT !.txn = TRUE], err |-> "none"]
    ELSE IF q.stmtType = "StmtUse" THEN handleUseDB(ex, q.dbName)
    ELSE [ex |-> ex, err |-> "ErrGeneric"]

\* SessionExecutor.doQuery: the executor afterwards, the error, the stages
\* reached, and the calls of RecordSQLForbidden made.
doQuery(ex, q) ==
    LET chk == checkSQLAllowed(q)
    IN  IF chk.err # "none"
        THEN [ex |-> ex, err |-> chk.err, reached |-> <<>>, forbidden |-> chk.forbidden]
        ELSE IF canHandleWithoutPlan(q.stmtType)
        THEN LET r == handleQueryWithoutPlan(ex, q)
             IN  [ex |-> r.ex, err |-> r.err, reached |-> <<"handleQueryWithoutPlan">>,
                  forbidden |-> chk.forbidden]
        ELSE IF ~q.plans
        THEN [ex |-> ex, err |-> "ErrGeneric", reached |-> <<"getPlan">>,
              forbidden |-> chk.forbidden]
        ELSE [ex |-> ex, err |-> IF q.executes THEN "none" ELSE "ErrGeneric",
              reached |-> <<"getPlan", "ExecuteIn">>, forbidden |-> chk.forbidden]

\* A query: its statement type, whether the user may write, whether the
\* blacklist lets it through, and what its handler needs.
Query(stmtType, allowWrite, sqlAllowed) ==
    [stmtType |-> stmtType, allowWrite |-> allowWrite, sqlAllowed |-> sqlAllowed,
     parses |-> TRUE, plans |-> TRUE, executes |-> TRUE,
     dbName |-> "", value |-> "utf8", extend |-> NoCollation]

\* The executor before the next query, and the queries and blacklist hits so
\* far.
QueriesLeft == call.fn = "none" \/ (call.fn = "doQuery" /\ call.n < MaxQueries)
CallExecutor == IF call.fn = "doQuery" THEN call.ex ELSE NewExecutor
CallForbidden == IF call.fn = "doQuery" THEN call.sqlForbidenCounts ELSE 0
CallQueries == IF call.fn = "doQuery" THEN call.n ELSE 0

\* One call of doQuery, from handleQuery or for a piece in doMultiStmts.
CallDoQuery(q) ==
    LET r == doQuery(CallExecutor, q)
    IN  CallStep([fn |-> "doQuery", q |-> q, before |-> CallExecutor, ex |-> r.ex,
                  err |-> r.err, reached |-> r.reached, forbidden |-> r.forbidden,
                  sqlForbidenCounts |-> CallForbidden + r.forbidden,
                  n |-> CallQueries + 1])

\* ------------------------------------------------------- loadAllNamespace

\* The worker goroutines loadAllNamespace starts, and the most namespace
\* names the store lists.
LoadWorkers == 10
MaxNames == 11

\* loadAllNamespace after ListNamespace returned names names: nameC and
\* namespaceC are unbuffered, sent counts the names the dispatcher has handed
\* over, recv the workers in "range nameC", loading those in LoadNamespace,
\* sending those in "namespaceC <- namespace", exited those that have called
\* wg.Done, and namespaceModels the namespaces collected.
LoadStart(names) ==
    /\ call.fn = "none"
    /\ CallStep([fn |-> "loadAllNamespace", names |-> names, sent |-> 0,
                 dispatcher |-> "send", recv |-> LoadWorkers, loading |-> 0,
                 sending |-> 0, exited |-> 0, namespaceModels |-> 0, err |-> FALSE,
                 collector |-> "range", result |-> "none"])

\* ListNamespace fails: the error is returned before any goroutine starts.
LoadListFails ==
    /\ call.fn = "none"
    /\ CallStep([fn |-> "loadAllNamespace", names |-> 0, sent |-> 0,
                 dispatcher |-> "done", recv |-> 0, loading |-> 0,
                 sending |-> 0, exited |-> 0, namespaceModels |-> 0, err |-> TRUE,
                 collector |-> "returned", result |-> "error"])

\* Dispatcher: nameC <- name, received by a worker in its range loop.
DispatchName ==
    /\ call.fn = "loadAllNamespace" /\ call.dispatcher = "send"
    /\ call.sent < call.names /\ call.recv > 0
    /\ CallStep([call EXCEPT !.sent = @ + 1, !.recv = @ - 1, !.loading = @ + 1])

\* Dispatcher: close(nameC) after the last name, then wg.Wait().
DispatchClose ==
    /\ call.fn = "loadAllNamespace" /\ call.dispatcher = "send"
    /\ call.sent = call.names
    /\ CallStep([call EXCEPT !.dispatcher = "wait"])

\* Dispatcher: wg.Wait() returns when every worker is done; close(namespaceC).
DispatchWait ==
    /\ call.fn = "loadAllNamespace" /\ call.dispatcher = "wait"
    /\ call.exited = LoadWorkers
    /\ CallStep([call EXCEPT !.dispatcher = "done"])

\* Worker: store.LoadNamespace returns; on an error the worker sets err and
\* returns, which runs wg.Done.
WorkerLoad(ok) ==
    /\ call.fn = "loadAllNamespace" /\ call.loading > 0
    /\ CallStep(IF ok THEN [call EXCEPT !.loading = @ - 1, !.sending = @ + 1]
                ELSE [call EXCEPT !.loading = @ - 1, !.exited = @ + 1, !.err = TRUE])

\* Worker: namespaceC <- namespace, received by the collector, which puts
\* it in namespaceModels; the worker is back in its range loop.
WorkerSend ==
    /\ call.fn = "loadAllNamespace" /\ call.sending > 0
    /\ call.collector = "range"
    /\ CallStep([call EXCEPT !.sending = @ - 1, !.recv = @ + 1,
                             !.namespaceModels = @ + 1])

\* Worker: nameC is closed, the range loop ends and wg.Done runs.
WorkerExit ==
    /\ call.fn = "loadAllNamespace" /\ call.dispatcher # "send"
    /\ call.recv > 0
    /\ CallStep([call EXCEPT !.recv = @ - 1, !.exited = @ + 1])

\* Collector: namespaceC is closed, the range loop ends and loadAllNamespace
\* returns the error or the map.
CollectReturn ==
    /\ call.fn = "loadAllNamespace" /\ call.collector = "range"
    /\ call.dispatcher = "done"
    /\ CallStep([call EXCEPT !.collector = "returned",
                             !.result = IF call.err THEN "error" ELSE "map"])

\* --------------------------------------------------- a reader, two reads

\* Manager.GetNamespace (and CheckUser, the password checks and
\* GetNamespaceByUser alike), first read: current, _, _ := switchIndex.Get().
ReaderGetIndex ==
    /\ call.fn = "none" \/ (call.fn = "GetNamespace" /\ call.pc = "returned")
    /\ CallStep([fn |-> "GetNamespace", pc |-> "slot", current |-> switchIndex,
                 name |-> "", result |-> NoNs, staged |-> FALSE])

\* ... second read: m.namespaces[current].GetNamespace(name), without a
\* lock.  staged tells that the slot read is, at this moment, the inactive
\* one and that the admin's last completed call is a prepare that succeeded:
\* the slot holds a configuration that is staged and not committed.
ReaderGetSlot(name) ==
    /\ call.fn = "GetNamespace" /\ call.pc = "slot"
    /\ CallStep([call EXCEPT !.pc = "returned", !.name = name,
                             !.result = NsGetNamespace(namespaces[call.current], name),
                             !.staged = /\ call.current # switchIndex
                                        /\ ret.op = "prepare" /\ ret.err = "nil"])

\* ---------------------------------------------------------- specifications

\* One admin thread: every sequence of prepare / commit / delete calls.
NextMgr ==
    \/ \E cfg \in Configs : nPrepared < MaxBuilds /\ ReloadNamespacePrepare("t1", cfg)
    \/ \E name \in Names : CommitCAS("t1", name)
    \/ CommitSwitch("t1")
    \/ \E name \in Names : DeleteNamespace("t1", name)

InitMgr == InitManager /\ InitAdmin /\ InitSessions

SpecMgr == InitMgr /\ [][NextMgr]_vars

AllIdle == \A t \in Admins : adm[t].pc = "idle"

\* Two admin threads committing concurrently.  Prepares are issued while no
\* commit is in flight, so at most one thread is ever past the CompareAndSwap
\* and switchIndex.Get / Set of CommitSwitch cannot interleave with another.
NextRace ==
    \/ \E cfg \in Configs :
          AllIdle /\ nPrepared < MaxBuilds /\ ReloadNamespacePrepare("t1", cfg)
    \/ \E t \in Admins, name \in Names : CommitCAS(t, name)
    \/ \E t \in Admins : CommitSwitch(t)

SpecRace == InitMgr /\ [][NextRace]_vars

\* Reloads issued while a client is served: namespace "a" with its users.
SessConfigs ==
    { cfg \in Configs : cfg.Name = "a" /\ cfg.valid /\ cfg.Users = InitialUsers("a") }

\* What the served client authenticates with: accepted, and rejected.
SessCreds == { <<uU, pP>>, <<uU, pQ>> }

\* One client connection served from handshake to close while one admin
\* thread reloads and deletes its namespace.
NextSess ==
    \/ \E cred \in SessCreds, keep \in BOOLEAN :
          HandshakeAuth("s1", cred[1], cred[2], keep)
    \/ \E allowed \in BOOLEAN, ok \in BOOLEAN : HandshakeLimit("s1", allowed, ok)
    \/ IncrConnectionLoad("s1")
    \/ IncrConnectionApply("s1")
    \/ RunLoopTop("s1")
    \/ \E c \in Cmds \cup {"err"} : RunRead("s1", c)
    \/ RunClearKs("s1")
    \/ RunExec("s1", NoQps, "ok")
    \/ \E ok \in BOOLEAN : RunWrite("s1", ok)
    \/ RunPost("s1")
    \/ RunDeferred("s1")
    \/ \E cfg \in SessConfigs : nPrepared < MaxReloads /\ ReloadNamespacePrepare("t1", cfg)
    \/ CommitCAS("t1", "a")
    \/ CommitSwitch("t1")
    \/ DeleteNamespace("t1", "a")

\* The served client's namespace is among the loaded ones.
InitSess == InitMgr /\ GetNamespace("a") # NoNs

SpecSess == InitSess /\ [][NextSess]_vars

\* One client whose statements may fail in the executor with an error of any
\* kind, under reloads and a delete of its namespace.
NextErr ==
    \/ \E keep \in BOOLEAN : HandshakeAuth("s1", uU, pP, keep)
    \/ HandshakeLimit("s1", TRUE, TRUE)
    \/ IncrConnectionLoad("s1")
    \/ IncrConnectionApply("s1")
    \/ RunLoopTop("s1")
    \/ \E c \in Cmds \cup {"err"} : RunRead("s1", c)
    \/ RunClearKs("s1")
    \/ \E out \in Outcomes : RunExec("s1", NoQps, out)
    \/ \E ok \in BOOLEAN : RunWrite("s1", ok)
    \/ RunPost("s1")
    \/ RunDeferred("s1")
    \/ \E cfg \in SessConfigs : nPrepared < MaxReloads /\ ReloadNamespacePrepare("t1", cfg)
    \/ CommitCAS("t1", "a")
    \/ CommitSwitch("t1")
    \/ DeleteNamespace("t1", "a")

SpecErr == InitSess /\ [][NextErr]_vars

\* One client sending single and multi-statement queries, with the timeout
\* wheel running and its namespace deleted at any moment.
NextMulti ==
    \/ \E keep \in BOOLEAN : HandshakeAuth("s1", uU, pP, keep)
    \/ HandshakeLimit("s1", TRUE, TRUE)
    \/ IncrConnectionLoad("s1")
    \/ IncrConnectionApply("s1")
    \/ RunLoopTop("s1")
    \/ \E c \in {"query", "begin", "multi", "err"} : RunRead("s1", c)
    \/ RunClearKs("s1")
    \/ \E out \in {"ok", "ErrGeneric"} : RunExec("s1", NoQps, out)
    \/ \E sql \in MultiTexts, out \in {"ok", "ErrGeneric"} : RunExecMulti("s1", sql, out)
    \/ \E ok \in BOOLEAN : RunMultiWrite("s1", ok)
    \/ \E ok \in BOOLEAN : RunWrite("s1", ok)
    \/ RunPost("s1")
    \/ RunDeferred("s1")
    \/ TimeoutFire("s1")
    \/ TimeoutClose("s1")
    \/ DeleteNamespace("t1", "a")

SpecMulti == InitSess /\ [][NextMulti]_vars

\* One client opening transactions and switching autocommit, with the timeout
\* wheel running; out decides whether a statement, or the backend's
\* SetAutoCommit, fails.
NextAc ==
    \/ \E keep \in BOOLEAN : HandshakeAuth("s1", uU, pP, keep)
    \/ HandshakeLimit("s1", TRUE, TRUE)
    \/ IncrConnectionLoad("s1")
    \/ IncrConnectionApply("s1")
    \/ RunLoopTop("s1")
    \/ \E c \in Cmds \cup {"multi", "set0", "set1", "err"} : RunRead("s1", c)
    \/ RunClearKs("s1")
    \/ \E out \in {"ok", "ErrGeneric"} : RunExec("s1", NoQps, out)
    \/ \E sql \in MultiTexts, out \in {"ok", "ErrGeneric"} : RunExecMulti("s1", sql, out)
    \/ \E ok \in BOOLEAN : RunMultiWrite("s1", ok)
    \/ \E ok \in BOOLEAN : RunWrite("s1", ok)
    \/ RunPost("s1")
    \/ RunDeferred("s1")
    \/ TimeoutFire("s1")
    \/ TimeoutClose("s1")

SpecAc == InitSess /\ [][NextAc]_vars

\* One client of a namespace with any QPS limit, whose namespace may be
\* deleted at any moment.
NextQps ==
    \/ \E keep \in BOOLEAN : HandshakeAuth("s1", uU, pP, keep)
    \/ HandshakeLimit("s1", TRUE, TRUE)
    \/ IncrConnectionLoad("s1")
    \/ IncrConnectionApply("s1")
    \/ RunLoopTop("s1")
    \/ \E c \in {"begin", "query", "multi", "err"} : RunRead("s1", c)
    \/ RunClearKs("s1")
    \/ \E q \in QpsInputs : RunExec("s1", q, "ok")
    \/ \E sql \in MultiTexts : RunExecMulti("s1", sql, "ok")
    \/ \E ok \in BOOLEAN : RunMultiWrite("s1", ok)
    \/ \E ok \in BOOLEAN : RunWrite("s1", ok)
    \/ RunPost("s1")
    \/ RunDeferred("s1")
    \/ DeleteNamespace("t1", "a")

SpecQps == InitSess /\ [][NextQps]_vars

\* The users of the authentication runs: u has the clear password p and the
\* stored hash of q in namespace "a" and the clear password q in "b"; v is
\* not configured.
AuthUsers(name) ==
    IF name = "a"
    THEN << [UserName |-> uU, Password |-> pP],
            [UserName |-> uU, Password |-> HashOf(pQ)] >>
    ELSE << [UserName |-> uU, Password |-> pQ] >>

InitAuth ==
    /\ reloadPrepared = FALSE
    /\ switchIndex = 0
    /\ namespaces = [i \in 0..1 |-> IF i = 0 THEN CreateNamespaceManager(Names)
                                             ELSE NilNamespaceManager]
    /\ users = [i \in 0..1 |->
                  IF i = 0
                  THEN addNamespaceUsers(
                           addNamespaceUsers(NewUserManager,
                                             [Name |-> "a", Users |-> AuthUsers("a")]),
                           [Name |-> "b", Users |-> AuthUsers("b")])
                  ELSE NilUserManager]
    /\ nextId = 3
    /\ closing = {}
    /\ InitAdmin
    /\ InitSessions

\* The auth responses a client may send: a scramble of either kind of one of
\* the configured strings, or bytes that are no scramble at all.
AuthResponses ==
    { CalcPassword(c) : c \in {pP, pQ, HashOf(pQ)} }
      \cup { CalcCachingSha2Password(c) : c \in {pP, pQ} }
      \cup { [scheme |-> "junk", clear |-> <<>>, len |-> n] : n \in {20, 32} }

HandshakeInfos ==
    [User : {uU, uV},
     AuthPlugin : {"", CachingSHA2Password, "mysql_native_password"},
     AuthResponse : AuthResponses,
     collation : BOOLEAN]

\* Two clients answering the initial handshake packet in every way.
NextAuth ==
    \E s \in {"s1", "s2"}, info \in HandshakeInfos : HandshakeResponse(s, info, FALSE)

SpecAuth == InitAuth /\ [][NextAuth]_vars

\* Three clients of user u handshaking with a right or a wrong password, a
\* known or an unknown collation, an allowed or a refused IP, while the
\* connections of the namespace are counted.
NextOrder ==
    \/ \E s \in Sessions, auth \in {pP, pQ}, collation \in BOOLEAN :
          HandshakeResponse(s, [User |-> uU, AuthPlugin |-> "mysql_native_password",
                                AuthResponse |-> CalcPassword(auth),
                                collation |-> collation], FALSE)
    \/ \E s \in Sessions, allowed \in BOOLEAN, ok \in BOOLEAN :
          HandshakeLimit(s, allowed, ok)
    \/ \E s \in Sessions : IncrConnectionLoad(s)
    \/ \E s \in Sessions : IncrConnectionApply(s)

SpecOrder == InitMgr /\ [][NextOrder]_vars

\* Two clients whose queries may panic in the query handling, while their
\* namespace may be deleted under them.
PanicSessions == {"s1", "s2"}

NextPanic ==
    \/ \E s \in PanicSessions, keep \in BOOLEAN : HandshakeAuth(s, uU, pP, keep)
    \/ \E s \in PanicSessions : HandshakeLimit(s, TRUE, TRUE)
    \/ \E s \in PanicSessions : IncrConnectionLoad(s)
    \/ \E s \in PanicSessions : IncrConnectionApply(s)
    \/ \E s \in PanicSessions : RunLoopTop(s)
    \/ \E s \in PanicSessions, c \in {"query", "quit", "err"} : RunRead(s, c)
    \/ \E s \in PanicSessions : RunClearKs(s)
    \/ \E s \in PanicSessions, out \in {"ok", "panic"} : RunExec(s, NoQps, out)
    \/ \E s \in PanicSessions, ok \in BOOLEAN : RunWrite(s, ok)
    \/ \E s \in PanicSessions : RunPost(s)
    \/ \E s \in PanicSessions : RunDeferred(s)
    \/ DeleteNamespace("t1", "a")

SpecPanic == InitSess /\ [][NextPanic]_vars

\* Two goroutines recording the exec times of both namespaces while the
\* ticker runs CalcAvgSQLTimes.
NextStat ==
    \/ \E r \in Recorders, n \in Names, seen \in BOOLEAN : RecordCheck(r, n, seen)
    \/ \E r \in Recorders : RecordSend(r)
    \/ \E r \in Recorders : RecordTimeout(r)
    \/ CalcStart
    \/ \E ns \in Names : CalcRange(ns)
    \/ CalcReturn
    \/ CalcDrain
    \/ CalcSwitchOn

SpecStat == InitMgr /\ [][NextStat]_vars

\* A pool made with any sizes, and any Get and Put calls on it.
NextPool ==
    \/ \E minSize \in 1..3, maxSize \in 1..MaxBufSize : PoolNew(minSize, maxSize)
    \/ \E size \in 0..(MaxBufSize + 1), kept \in BOOLEAN : PoolGet(size, kept)
    \/ \E i \in 1..MaxHeld : PoolPut(i)

SpecPool == InitMgr /\ [][NextPool]_vars

\* checkRandomSQLs called as TestCheckRandomSQLs calls it, with the expected
\* data as one map and as one map per slice and db, and with two maps that
\* hold the same slice.
NextRandom ==
    \/ call.fn = "none" /\ \E m \in SliceMaps, actual \in SliceMaps :
          CallCheckRandomSQLs(<<m>>, m, actual)
    \/ call.fn = "none" /\ \E m \in SliceMaps, actual \in SliceMaps :
          CallCheckRandomSQLs(SplitMap(m), m, actual)
    \/ call.fn = "none" /\ \E d1, d2 \in DbMaps, actual \in SliceMaps :
          CallCheckRandomSQLs(<<[s \in {"slice0"} |-> d1], [s \in {"slice0"} |-> d2]>>,
                              [s \in {"slice0"} |-> d1], actual)

\* A manager without namespaces, and no call made yet.
InitCall == InitMgr /\ users[0] = NewUserManager

SpecRandom == InitCall /\ [][NextRandom]_vars

\* The queries of one session, each through doQuery: selects and write DML
\* that plan and execute or fail, USE, SET NAMES, BEGIN and SHOW, from a user
\* who may or may not write, blacklisted or not.
NextQuery ==
    \/ QueriesLeft /\ \E t \in {"StmtSelect", "StmtInsert", "StmtUpdate", "StmtDelete"},
                           w, a, pl, xc \in BOOLEAN :
          CallDoQuery([Query(t, w, a) EXCEPT !.plans = pl, !.executes = xc])
    \/ QueriesLeft /\ \E d \in UseNames, w, a, ps \in BOOLEAN :
          CallDoQuery([Query("StmtUse", w, a) EXCEPT !.dbName = d, !.parses = ps])
    \/ QueriesLeft /\ \E v \in CharsetArgs, e \in CollationArgs, a \in BOOLEAN :
          CallDoQuery([Query("StmtSet", TRUE, a) EXCEPT !.value = v, !.extend = e])
    \/ QueriesLeft /\ \E t \in {"StmtBegin", "StmtShow"}, a, ps \in BOOLEAN :
          CallDoQuery([Query(t, FALSE, a) EXCEPT !.parses = ps])

SpecQuery == InitCall /\ [][NextQuery]_vars

\* One call of loadAllNamespace for every number of names and every
\* outcome of each load; every goroutine that can take a step eventually
\* takes one, and every LoadNamespace call returns.
NextLoad ==
    \/ \E names \in 0..MaxNames : LoadStart(names)
    \/ LoadListFails
    \/ DispatchName
    \/ DispatchClose
    \/ DispatchWait
    \/ \E ok \in BOOLEAN : WorkerLoad(ok)
    \/ WorkerSend
    \/ WorkerExit
    \/ CollectReturn

SpecLoad ==
    /\ InitCall /\ [][NextLoad]_vars
    /\ WF_vars(DispatchName) /\ WF_vars(DispatchClose) /\ WF_vars(DispatchWait)
    /\ WF_vars(\E ok \in BOOLEAN : WorkerLoad(ok))
    /\ WF_vars(WorkerSend) /\ WF_vars(WorkerExit) /\ WF_vars(CollectReturn)

\* One admin thread preparing, committing and deleting while a reader
\* resolves namespaces, its two reads interleaved with the admin's calls.
NextReader ==
    \/ \E cfg \in Configs : nPrepared < MaxBuilds /\ ReloadNamespacePrepare("t1", cfg)
    \/ \E name \in Names : CommitCAS("t1", name)
    \/ CommitSwitch("t1")
    \/ \E name \in Names : DeleteNamespace("t1", name)
    \/ ReaderGetIndex
    \/ \E name \in Names : ReaderGetSlot(name)

SpecReader == InitMgr /\ [][NextReader]_vars

\* One keep-session client sending queries, transactions and pings; a ping
\* may fail.
NextPing ==
    \/ HandshakeAuth("s1", uU, pP, TRUE)
    \/ HandshakeLimit("s1", TRUE, TRUE)
    \/ IncrConnectionLoad("s1")
    \/ IncrConnectionApply("s1")
    \/ RunLoopTop("s1")
    \/ \E c \in {"query", "begin", "ping", "quit", "err"} : RunRead("s1", c)
    \/ RunClearKs("s1")
    \/ \E out \in {"ok", "ErrBadConn"} : RunExec("s1", NoQps, out)
    \/ \E ok \in BOOLEAN : RunWrite("s1", ok)
    \/ RunPost("s1")
    \/ RunDeferred("s1")

SpecPing == InitSess /\ [][NextPing]_vars

\* Three clients of namespace "a" connecting at the same time; each is served
\* until its read fails.
NextHs ==
    \/ \E s \in Sessions : HandshakeAuth(s, uU, pP, FALSE)
    \/ \E s \in Sessions : HandshakeLimit(s, TRUE, TRUE)
    \/ \E s \in Sessions : IncrConnectionLoad(s)
    \/ \E s \in Sessions : IncrConnectionApply(s)
    \/ \E s \in Sessions : RunLoopTop(s)
    \/ \E s \in Sessions : RunRead(s, "err")
    \/ \E s \in Sessions : RunDeferred(s)

SpecHs == InitMgr /\ [][NextHs]_vars

\* One client connection served while the timeout wheel may fire at any
\* moment after a read; no reload happens.
NextTw ==
    \/ \E keep \in BOOLEAN : HandshakeAuth("s1", uU, pP, keep)
    \/ \E ok \in BOOLEAN : HandshakeLimit("s1", TRUE, ok)
    \/ IncrConnectionLoad("s1")
    \/ IncrConnectionApply("s1")
    \/ RunLoopTop("s1")
    \/ \E c \in Cmds \cup {"err"} : RunRead("s1", c)
    \/ RunClearKs("s1")
    \/ RunExec("s1", NoQps, "ok")
    \/ \E ok \in BOOLEAN : RunWrite("s1", ok)
    \/ RunPost("s1")
    \/ RunDeferred("s1")
    \/ TimeoutFire("s1")
    \/ TimeoutClose("s1")

SpecTw == InitSess /\ [][NextTw]_vars

\* One client connection served while the timeout wheel may fire; a
\* statement may fail in the executor.  The goroutine of the session and the
\* callback of the wheel keep running; a read returns for sure only once the
\* socket is closed.
NextLive ==
    \/ \E keep \in BOOLEAN : HandshakeAuth("s1", uU, pP, keep)
    \/ HandshakeLimit("s1", TRUE, TRUE)
    \/ IncrConnectionLoad("s1")
    \/ IncrConnectionApply("s1")
    \/ RunLoopTop("s1")
    \/ \E c \in Cmds \cup {"err"} : RunRead("s1", c)
    \/ RunClearKs("s1")
    \/ \E out \in {"ok", "ErrGeneric"} : RunExec("s1", NoQps, out)
    \/ \E ok \in BOOLEAN : RunWrite("s1", ok)
    \/ RunPost("s1")
    \/ RunDeferred("s1")
    \/ TimeoutFire("s1")
    \/ TimeoutClose("s1")

SpecLive ==
    /\ InitSess
    /\ [][NextLive]_vars
    /\ WF_vars(RunLoopTop("s1"))
    /\ WF_vars(sess["s1"].closed /\ RunRead("s1", "err"))
    /\ WF_vars(RunClearKs("s1"))
    /\ WF_vars(\E out \in {"ok", "ErrGeneric"} : RunExec("s1", NoQps, out))
    /\ WF_vars(\E ok \in BOOLEAN : RunWrite("s1", ok))
    /\ WF_vars(RunPost("s1"))
    /\ WF_vars(RunDeferred("s1"))
    /\ WF_vars(TimeoutClose("s1"))

\* ------------------------------------------------------------------ claims

\* What a vetoed request looks like: the command was not dispatched, the
\* response handed to writeResponse is ErrTxNsChanged, and once the request
\* is over the session is closed.
Vetoed(se) ==
    /\ ~se.gExecuted
    /\ (se.pc \in {"write", "post"} \/ se.gDone) => se.rs = "ErrTxNsChanged"
    /\ se.gDone => se.closed

\* C1 (as stated): every session that is mid-transaction, keep-session or
\* not, whose namespace was swapped since the snapshot taken before the read
\* has its next command vetoed: not executed, answered ErrTxNsChanged, and the
\* session closed.
C1_TxSwapVetoesEverySession ==
    \A s \in Sessions :
        (sess[s].gInTx /\ sess[s].gSwapped) => Vetoed(sess[s])

\* C1 (amended): the veto applies to keep-session clients; for them a command
\* read mid-transaction after a swap is not executed, is answered
\* ErrTxNsChanged, and the session is closed once the request is over.
C1_TxSwapVetoesKeepSession ==
    \A s \in Sessions :
        (sess[s].keep /\ sess[s].gInTx /\ sess[s].gSwapped) => Vetoed(sess[s])

\* A keep-session client was mid-transaction when the swap happened, its
\* command was answered ErrTxNsChanged and the session is closed.
C1_Witness ==
    \E s \in Sessions :
        /\ sess[s].keep /\ sess[s].gInTx /\ sess[s].gSwapped
        /\ sess[s].gDone /\ sess[s].closed /\ sess[s].rs = "ErrTxNsChanged"

\* C2: a keep-session client outside a transaction that reads a command
\* after a swap has all its ksConns closed and recycled and ksConns emptied
\* before dispatch, the command is executed, and the session stays open
\* (unless the command is a quit or the response cannot be written).
C2_KeepSessionSurvivesSwap ==
    \A s \in Sessions :
        LET se == sess[s]
        IN  (se.keep /\ ~se.gInTx /\ se.gSwapped) =>
               /\ se.pc = "exec" =>
                     /\ se.ksConns = {}
                     /\ \A c \in se.gKs : conns[c].closed >= 1 /\ conns[c].recycled >= 1
               /\ (se.pc \in {"write", "post"} \/ se.gDone) => se.gExecuted
               /\ (se.gDone /\ se.cmd # "quit" /\ ~se.gWriteErr) => ~se.closed

\* C3: no statement executes against a stale or a different namespace: the
\* backend connection a statement of request R runs on was handed out by the
\* namespace instance that was current when R started.
C3_NoStaleNamespace ==
    \A s \in Sessions :
        LET se == sess[s]
        IN  (se.pc = "write" /\ se.gExecuted /\ se.cmd = "query" /\ se.ns # NoNs) =>
               \A c \in (IF se.keep THEN se.ksConns ELSE se.continueConn) :
                   conns[c].ns = se.gStart

\* C4: ReloadNamespaceCommit succeeds only when a prepare is outstanding and
\* consumes it: a commit that finds reloadPrepared false returns
\* ErrNamespaceNotPrepared and changes neither the active index, the slots nor
\* the user tables; successful commits never outnumber successful prepares, and
\* every successful commit flips the active index exactly once.
C4_CommitConsumesPrepare ==
    /\ [](/\ nCommitted <= nPrepared
          /\ nSwitched <= nCommitted
          /\ Cardinality({t \in Admins : adm[t].pc = "switch"}) = nCommitted - nSwitched
          /\ switchIndex = nSwitched % 2)
    /\ [][\A t \in Admins, name \in Names :
             (CommitCAS(t, name) /\ ~reloadPrepared)
                 => /\ ret'.op = "commit" /\ ret'.err = "ErrNamespaceNotPrepared"
                    /\ UNCHANGED <<switchIndex, namespaces, users, adm, closing>>]_vars

\* C4 witness: of two concurrent commits for one prepare, one is past the
\* CompareAndSwap and the other has returned ErrNamespaceNotPrepared.
C4_Witness ==
    /\ nPrepared = 1 /\ nCommitted = 1
    /\ \E t \in Admins : adm[t].pc = "switch"
    /\ ret.op = "commit" /\ ret.err = "ErrNamespaceNotPrepared"

\* C5: once a prepare has set reloadPrepared, a further
\* ReloadNamespacePrepare before the commit does not take effect.
C5_SecondPrepareIgnored ==
    [][\A cfg \in Configs :
          (ReloadNamespacePrepare("t1", cfg) /\ reloadPrepared)
              => UNCHANGED <<namespaces, users>>]_vars

\* C6: after ReloadNamespaceCommit(name) returns success,
\* GetNamespace(name) is the instance built by the most recent successful
\* ReloadNamespacePrepare for that name.
C6_CommitPublishesLatestPrepare ==
    (ret.op = "commit" /\ ret.err = "nil" /\ lastPrepared[ret.name] # 0)
        => GetNamespace(ret.name).id = lastPrepared[ret.name]

\* C7: the namespaceChangeIndex readers observe for a name never
\* decreases, and two successive distinct versions of a name never carry the
\* same index.
C7_IndexNeverDecreases ==
    [][\A n \in Names :
          GetNamespace(n)' # NoNs
              => /\ GetNamespace(n)'.idx >= lastSeen[n].idx
                 /\ (GetNamespace(n)'.id # lastSeen[n].id
                        => GetNamespace(n)'.idx # lastSeen[n].idx)]_vars

\* C8: DeleteNamespace(name) for a name absent from the active slot returns
\* success and changes nothing; and after any DeleteNamespace(name) the name is
\* absent from the active slot, so a second delete is such a no-op.
C8_DeleteAbsentIsNoop ==
    /\ [](ret.op = "delete" => (ret.err = "nil" /\ GetNamespace(ret.name) = NoNs))
    /\ [][\A name \in Names :
             (DeleteNamespace("t1", name) /\ GetNamespace(name) = NoNs)
                 => /\ UNCHANGED mgrVars
                    /\ ret'.op = "delete" /\ ret'.err = "nil"]_vars

\* C8 witness: a delete of an absent name has returned, right after a delete
\* that removed it (nothing was closed twice, the index flipped once).
C8_Witness ==
    /\ ret.op = "delete" /\ ret.noop
    /\ switchIndex = 1 /\ Cardinality(closing) = 1 /\ nPrepared = 0

\* C9: ReloadNamespacePrepare, successful or failed, changes nothing readers
\* resolve (active index, GetNamespace, CheckUser, password checks,
\* GetNamespaceByUser) and does not touch the active slot's namespace map or
\* user manager; whatever readers resolve changes only with a flip of the index.
C9_PrepareInvisibleToReaders ==
    /\ [][(\E cfg \in Configs : ReloadNamespacePrepare("t1", cfg))
             => /\ ReaderView' = ReaderView
                /\ switchIndex' = switchIndex
                /\ namespaces'[Current] = namespaces[Current]
                /\ users'[Current] = users[Current]]_vars
    /\ [][ReaderView' # ReaderView => switchIndex' # switchIndex]_vars

\* C9 witness: a prepare has staged a slot that differs from the active one.
C9_Witness ==
    /\ ret.op = "prepare" /\ ret.err = "nil" /\ reloadPrepared
    /\ namespaces[Other].ns # namespaces[Current].ns
    /\ users[Other].userNamespaces # users[Current].userNamespaces

\* C10: the sessions of a namespace that completed the handshake with OK and
\* are not yet closed never outnumber the namespace's maxClientConnections.
C10_ConnectionCapHolds ==
    \A n \in Names :
        GetNamespace(n) # NoNs =>
            Cardinality({ s \in Sessions : /\ sess[s].hs = "OK"
                                           /\ ~sess[s].closed
                                           /\ sess[s].namespace = n })
                <= GetNamespace(n).max

\* The value of clientConnecions[n]; 0 when no counter is stored.
ConnectionCount(n) ==
    IF clientConnecions[n] = 0 THEN 0 ELSE counters[clientConnecions[n]]

\* Sessions of n between Run's IncrConnectionCount and its deferred function.
Running(n) ==
    { s \in Sessions : /\ sess[s].namespace = n
                       /\ sess[s].pc \in {"loop", "read", "clearks", "exec", "write", "post"} }

\* C11: clientConnections[ns] is never negative, and whenever no session is
\* inside IncrConnectionCount or Run's deferred function it equals the number
\* of sessions of ns that have started Run and not yet exited it.
C11_CounterMatchesRunning ==
    \A n \in Names :
        /\ ConnectionCount(n) >= 0
        /\ (\A s \in Sessions : sess[s].pc \notin {"incr", "incr2", "deferred"})
               => ConnectionCount(n) = Cardinality(Running(n))

\* C12: the teardown of Session.Close (rollback, keep-session quit, socket
\* close) runs at most once per session, whichever goroutines call Close.
C12_TeardownOnce == \A s \in Sessions : sess[s].teardowns <= 1

\* C13: a session reads the packet of its next request only after the
\* response to the previous one has been written, so at most one command of a
\* session is in execution at any time.
C13_Sequential ==
    /\ [](\A s \in Sessions : sess[s].nReq - sess[s].nResp <= 1)
    /\ [][\A s \in Sessions :
             sess'[s].nReq # sess[s].nReq => sess[s].nResp = sess[s].nReq]_vars

\* C13 witness: a second request is being executed after the first one was
\* answered.
C13_Witness ==
    \E s \in Sessions :
        sess[s].pc = "exec" /\ sess[s].nReq = 2 /\ sess[s].nResp = 1

\* C14: writeResponse on an error response, and Run on its result.  A
\* SessionCloseRespError has writeErrorPacket called exactly once and Run
\* return, closing the session; a SessionCloseNoRespError has nothing written
\* and Run return; any other error has writeErrorPacket called once and, when
\* the write succeeded, the session goes on, still open, to read its next
\* command.  A session whose Run returned is closed.
C14_ErrorKinds ==
    /\ [][\A s \in Sessions :
             LET se == sess[s]
                 nx == sess'[s]
                 k  == ErrorKind(se.rs)
             IN  /\ (se.pc = "write" /\ nx.pc # "write") =>
                       /\ k = "SessionCloseRespError" =>
                              nx.gErrPackets = 1 /\ nx.pc = "deferred"
                       /\ k = "SessionCloseNoRespError" =>
                              nx.gErrPackets = 0 /\ ~nx.gSent /\ nx.pc = "deferred"
                       /\ k = "error" =>
                              /\ nx.gErrPackets = 1
                              /\ nx.gSent => nx.pc = "post" /\ nx.closed = se.closed
                 /\ (se.pc = "post" /\ nx.pc # "post" /\ k = "error") =>
                       nx.pc = "loop" /\ ~nx.closed
                 /\ (se.pc = "loop" /\ nx.pc # "loop" /\ k = "error" /\ se.gSent) =>
                       nx.pc = "read"]_vars
    /\ [](\A s \in Sessions : sess[s].pc = "done" => sess[s].closed)

\* C15: every writeResponse call, of Run or of doMultiStmts, on every exit
\* path, hands continueConn to recycleBackendConn once and leaves it nil; a
\* session holds at most one streamed connection, and only between the
\* statement that produced it and the write of its response.
C15_ContinueConnRecycled ==
    /\ [](\A s \in Sessions :
             /\ Cardinality(sess[s].continueConn) <= 1
             /\ sess[s].continueConn # {} => sess[s].pc \in {"write", "mwrite"})
    /\ [][\A s \in Sessions :
             (sess[s].pc \in {"write", "mwrite"} /\ sess'[s].pc # sess[s].pc) =>
                 /\ sess'[s].continueConn = {}
                 /\ \A c \in sess[s].continueConn :
                        conns'[c].recycled = conns[c].recycled + 1]_vars

\* C15 witness: the streamed result of the first statement of a
\* multi-statement query was written, its connection recycled once, and the
\* next statement is being executed.
C15_Witness ==
    \E s \in Sessions :
        /\ sess[s].cmd = "multi" /\ sess[s].piece = 1 /\ sess[s].pc = "exec"
        /\ sess[s].continueConn = {}
        /\ \E c \in DOMAIN conns :
               conns[c].ns # 0 /\ conns[c].recycled = 1 /\ conns[c].closed = 0

\* C16: every backend connection a session acquired has exactly one of
\* Recycle and Close called on it, once: never both, never twice, and never
\* neither once the session has terminated.
C16_RecycleOrCloseOnce ==
    \A c \in DOMAIN conns :
        conns[c].ns # 0 =>
            /\ conns[c].closed + conns[c].recycled <= 1
            /\ (\A s \in Sessions : sess[s].pc \in {"accept", "done"}) =>
                   conns[c].closed + conns[c].recycled = 1

\* C17: when handleSetAutoCommit(true) has returned, whether or not
\* SetAutoCommit failed on a backend connection, txConns is empty, IN_TRANS is
\* clear, AUTOCOMMIT is set, and every connection that was in txConns has been
\* recycled once and not closed.
C17_AutoCommitOnReleases ==
    [][\A s \in Sessions :
          (/\ sess[s].pc = "exec" /\ sess[s].cmd = "set1"
           /\ sess'[s].pc # "exec" /\ sess'[s].gExecuted /\ sess[s].ns # NoNs) =>
              /\ sess'[s].txConns = {}
              /\ ~sess'[s].inTrans
              /\ sess'[s].autocommit
              /\ \A c \in sess[s].txConns :
                     /\ conns'[c].recycled = conns[c].recycled + 1
                     /\ conns'[c].closed = conns[c].closed]_vars

\* C17 witness: SET autocommit=1 has returned the error of a failed backend
\* SetAutoCommit, and the connection of the transaction is recycled.
C17_Witness ==
    \E s \in Sessions :
        /\ sess[s].pc = "write" /\ sess[s].cmd = "set1" /\ sess[s].rs = "ErrGeneric"
        /\ sess[s].txConns = {}
        /\ \E c \in DOMAIN conns : conns[c].ns # 0 /\ conns[c].recycled = 1

\* C18 as stated: IN_TRANS is set exactly when txConns is non-empty.
C18_InTransIffTxConns ==
    \A s \in Sessions : sess[s].inTrans <=> sess[s].txConns # {}

\* C18, amended: a session that holds a connection in txConns has IN_TRANS
\* set; IN_TRANS alone says nothing, since BEGIN sets it before any statement
\* has taken a connection.
C18_TxConnsImplyInTrans ==
    \A s \in Sessions : sess[s].txConns # {} => sess[s].inTrans

\* C18 witness: a transaction holds a backend connection.
C18_Witness ==
    \E s \in Sessions : sess[s].txConns # {} /\ sess[s].inTrans

\* The response of a query that handleQuery rejected for the QPS limit.
QpsRejected(rs) == rs \in {"ErrClientQpsLimited", "ErrClientQpsLimitedClose"}

\* C19 as stated: a query is rejected exactly when clientQPSLimit > 0, the
\* limiter has no token, and supportLimitTx and being in a transaction are
\* both true or both false.
C19_RejectsWhenTxMatches ==
    [][\A s \in Sessions :
          (/\ sess[s].pc = "exec" /\ sess[s].cmd = "query" /\ sess[s].ns # NoNs
           /\ sess'[s].pc # "exec" /\ sess'[s].gExecuted) =>
              LET q == sess'[s].gQps
              IN  QpsRejected(sess'[s].rs) <=>
                      /\ q.limit > 0 /\ ~q.token
                      /\ q.supportLimitTx <=> sess[s].inTrans]_vars

\* C19, amended: a query is rejected exactly when clientQPSLimit > 0, the
\* limiter has no token, and either supportLimitTx is true, in or out of a
\* transaction, or the session is not in a transaction; with clientQPSLimit =
\* 0 it is never rejected.
C19_RejectsWhenLimited ==
    [][\A s \in Sessions :
          (/\ sess[s].pc = "exec" /\ sess[s].cmd = "query" /\ sess[s].ns # NoNs
           /\ sess'[s].pc # "exec" /\ sess'[s].gExecuted) =>
              LET q == sess'[s].gQps
              IN  QpsRejected(sess'[s].rs) <=>
                      /\ q.limit > 0 /\ ~q.token
                      /\ q.supportLimitTx \/ ~sess[s].inTrans]_vars

\* C19 witness: a query outside a transaction was rejected under
\* supportLimitTx.
C19_Witness ==
    \E s \in Sessions :
        /\ sess[s].pc = "write" /\ sess[s].rs = "ErrClientQpsLimited"
        /\ sess[s].gQps.supportLimitTx /\ ~sess[s].inTrans

\* C20: a QPS rejection inside a transaction is a SessionCloseRespError: one
\* ERR packet is written, Run returns, and the session ends closed with its
\* transaction connections released.  A QPS rejection outside a transaction
\* is a plain error: one ERR packet is written and, when the write succeeded,
\* the session stays open and reads its next command.
C20_QpsRejectionDelivery ==
    /\ [][\A s \in Sessions :
             LET se == sess[s]
                 nx == sess'[s]
             IN  /\ (se.pc = "exec" /\ nx.pc # "exec" /\ QpsRejected(nx.rs)) =>
                       nx.rs = IF se.inTrans THEN "ErrClientQpsLimitedClose"
                               ELSE "ErrClientQpsLimited"
                 /\ (se.pc = "write" /\ nx.pc # "write"
                        /\ se.rs = "ErrClientQpsLimitedClose") =>
                       nx.gErrPackets = 1 /\ nx.pc = "deferred"
                 /\ (se.pc = "write" /\ nx.pc # "write"
                        /\ se.rs = "ErrClientQpsLimited") =>
                       /\ nx.gErrPackets = 1
                       /\ nx.gSent => nx.pc = "post" /\ ~nx.closed
                 /\ (se.pc = "post" /\ nx.pc # "post"
                        /\ se.rs = "ErrClientQpsLimited") =>
                       nx.pc = "loop" /\ ~nx.closed
                 /\ (se.pc = "loop" /\ nx.pc # "loop"
                        /\ se.rs = "ErrClientQpsLimited") =>
                       nx.pc = "read"]_vars
    /\ [](\A s \in Sessions :
             (sess[s].pc = "done" /\ sess[s].rs = "ErrClientQpsLimitedClose") =>
                 /\ sess[s].closed
                 /\ sess[s].txConns = {}
                 /\ \A c \in DOMAIN conns :
                        conns[c].ns # 0 => conns[c].recycled >= 1)

\* C20 witness: a query was rejected inside a transaction that holds a
\* backend connection, and the session-closing error is about to be written.
C20_Witness ==
    \E s \in Sessions :
        /\ sess[s].pc = "write" /\ sess[s].rs = "ErrClientQpsLimitedClose"
        /\ sess[s].inTrans /\ sess[s].txConns # {}

\* C21: the pieces of a multi-statement query are executed in the order of
\* the text; the result of every piece but the last is written, with
\* MORE_RESULTS_EXISTS, before the next piece executes; the result of the
\* last piece goes through Run's write without the flag; and the flag is
\* never set in the executor's status.
C21_MultiStmtsInOrder ==
    \A s \in Sessions :
        LET se == sess[s]
        IN  /\ ~se.more
            /\ se.cmd = "multi" =>
                   /\ Len(se.gRun) <= Len(se.sql)
                   /\ \A i \in 1..Len(se.gRun) : se.gRun[i] = se.sql[i]
                   /\ \A i \in 1..Len(se.gFlags) : se.gFlags[i] = (i < StmtsNum)
                   /\ (se.pc = "exec" /\ se.sql # <<>>) =>
                          Len(se.gFlags) = Len(se.gRun)
                   /\ (se.pc = "post" /\ ErrorKind(se.rs) = "none") =>
                          se.gRun = se.sql /\ Len(se.gFlags) = StmtsNum

\* C21 witness: all the pieces of a multi-statement query of two different
\* statements succeeded and the last result has been written.
C21_Witness ==
    \E s \in Sessions :
        /\ sess[s].cmd = "multi" /\ sess[s].pc = "post"
        /\ ErrorKind(sess[s].rs) = "none"
        /\ sess[s].gRun = sess[s].sql /\ sess[s].sql[1] # sess[s].sql[2]
        /\ Len(sess[s].gFlags) = StmtsNum

\* C22: handleHandshakeResponse denies an unknown user without checking any
\* password; for a known user the checks made depend on the plugin and the
\* length of the auth response alone: empty plugin and 32 bytes, SHA-256
\* only; empty plugin and another length, the native hash and, when that
\* fails, the classic check; caching_sha2_password, SHA-256 only; any other
\* plugin, the classic check only.  On success the namespace of the session
\* is the one the user manager maps user:password to, for the password that
\* matched.
C22_AuthenticationOrder ==
    \A s \in Sessions :
        LET se == sess[s]
            u  == users[Current]
            in == se.gInfo
        IN  se.pc # "accept" =>
              /\ ~UmCheckUser(u, in.User) =>
                     se.hs = "ErrAccessDenied" /\ se.gTried = <<>>
              /\ UmCheckUser(u, in.User) =>
                     /\ (in.AuthPlugin = "" /\ in.len = 32) => se.gTried = <<"sha2">>
                     /\ (in.AuthPlugin = "" /\ in.len # 32) =>
                            \/ se.gTried = <<"hash">> /\ se.gPassword # <<>>
                                   /\ se.gPassword[1] = "*"
                            \/ se.gTried = <<"hash", "classic">>
                     /\ in.AuthPlugin = CachingSHA2Password => se.gTried = <<"sha2">>
                     /\ in.AuthPlugin \notin {"", CachingSHA2Password} =>
                            se.gTried = <<"classic">>
              /\ se.pc = "limit" =>
                     /\ se.gPassword \in Range(UsersOf(u, in.User))
                     /\ se.namespace = UmGetNamespaceByUser(u, in.User, se.gPassword)

\* C22 witness: a client with an empty plugin whose scramble failed the
\* native-hash check was authenticated by the classic one, and another was
\* authenticated by the native hash.
C22_Witness ==
    \E s, t \in Sessions :
        /\ sess[s].pc = "limit" /\ sess[s].gTried = <<"hash", "classic">>
        /\ sess[s].gPassword = pP /\ sess[s].namespace = "a"
        /\ sess[t].pc = "limit" /\ sess[t].gTried = <<"hash">>
        /\ sess[t].gPassword = HashOf(pQ) /\ sess[t].namespace = "a"

\* The order of Handshake's checks and the error of each.
CheckOrder == <<"auth", "collation", "ip", "cap">>

CheckError(check) ==
    IF check = "auth" THEN "ErrAccessDenied"
    ELSE IF check = "collation" THEN "ErrInternal"
    ELSE IF check = "ip" THEN "ErrAccessDenied"
    ELSE "ErrConCount"

\* C23: Handshake evaluates authentication, collation, IP allowlist and
\* connection cap in this order and stops at the first that fails, whose
\* error it returns; OK is written only when all four have passed, and
\* nothing is checked after a failure.
C23_HandshakeOrder ==
    \A s \in Sessions :
        LET se == sess[s]
            n  == Len(se.gChecks)
        IN  /\ n <= Len(CheckOrder)
            /\ \A i \in 1..n : se.gChecks[i].check = CheckOrder[i]
            /\ \A i \in 1..(n - 1) : se.gChecks[i].ok
            /\ se.hs = "OK" => n = Len(CheckOrder) /\ se.gChecks[n].ok
            /\ (n > 0 /\ ~se.gChecks[n].ok) =>
                   se.pc = "done" /\ se.hs = CheckError(se.gChecks[n].check)
            /\ (se.pc = "done" /\ se.hs \in {"ErrAccessDenied", "ErrInternal", "ErrConCount"}) =>
                   n > 0 /\ ~se.gChecks[n].ok

\* C23 witness: a client was refused for the connection cap after its three
\* earlier checks passed.
C23_Witness ==
    \E s \in Sessions :
        /\ sess[s].pc = "done" /\ sess[s].hs = "ErrConCount"
        /\ Len(sess[s].gChecks) = 4 /\ sess[s].gChecks[3].ok

C25_SamplingBounded ==
    /\ [](\A n \in Names :
            /\ statistics.SQLResponsePercentile[n].sQLExecTimeChan <= SQLExecTimeSize
            /\ statistics.SQLResponsePercentile[n].gOff
                   => statistics.SQLResponsePercentile[n].sQLExecTimeChan = SQLExecTimeSize
            /\ statistics.calc.len <= SQLExecTimeSize + 1)
    /\ [][/\ \A n \in Names :
               statistics'.SQLResponsePercentile[n].sQLExecTimeChan
                   > statistics.SQLResponsePercentile[n].sQLExecTimeChan
               => ~statistics.SQLResponsePercentile[n].gOff
          /\ \A r \in Recorders :
               LET n == statistics.rec[r].namespace
               IN  /\ statistics.rec[r].pc = "select"
                   /\ statistics'.rec[r].pc = "idle"
                   /\ statistics'.SQLResponsePercentile[n].sQLExecTimeChan
                          = statistics.SQLResponsePercentile[n].sQLExecTimeChan
                   => /\ ~statistics'.SQLResponsePercentile[n].sqlExecTimeRecordSwitch
                      /\ statistics.SQLResponsePercentile[n].sQLExecTimeChan
                             = SQLExecTimeSize
          /\ statistics.calc.pc = "range" /\ statistics'.calc.pc = "idle"
               => statistics.calc.gOn = Names]_vars

C25_Witness ==
    /\ statistics.SQLResponsePercentile["a"].gOff
    /\ ~statistics.SQLResponsePercentile["a"].sqlExecTimeRecordSwitch
    /\ statistics.rec["r1"].pc = "select" /\ statistics.rec["r1"].namespace = "a"
    /\ statistics.calc.pc = "drain" /\ statistics.calc.ns = "b"
    /\ statistics.calc.len = SQLExecTimeSize + 1

\* C26: in every user manager the two maps agree: a password p is in
\* users[u] if and only if userNamespaces[u:p] is defined, and no password
\* occurs twice in users[u].
C26_UserMapsAgree ==
    \A i \in 0..1 :
        ~users[i].isNil =>
            \A u \in UserNames :
                LET list == UsersOf(users[i], u)
                IN  /\ \A j, k \in 1..Len(list) : list[j] = list[k] => j = k
                    /\ \A p \in Passwords :
                           p \in Range(list)
                               <=> getUserKey(u, p) \in DOMAIN users[i].userNamespaces

\* C27: when the timeout wheel fires for a session that is blocked reading
\* its next packet, the session's Run eventually returns, the session closed
\* and the deferred cleanup done exactly once; the cleanup never runs twice.
C27_TimeoutEndsRun ==
    /\ (sess["s1"].pc = "read" /\ sess["s1"].tw = "closing")
           ~> (sess["s1"].pc = "done" /\ sess["s1"].closed /\ sess["s1"].nCleanup = 1)
    /\ [](sess["s1"].nCleanup <= 1)

C27_Witness ==
    /\ sess["s1"].pc = "read" /\ sess["s1"].tw = "closing"
    /\ ~sess["s1"].closed /\ sess["s1"].nReq = 1

\* C28: Get(size) returns a slice of length size and capacity at least size:
\* freshly allocated when size is above maxSize, and else from the smallest
\* bucket whose size is at least size; Put stores a buffer only in the bucket
\* whose size is the buffer's capacity and discards one above maxSize; every
\* bucket keeps only buffers of its own size.
C28_GetLengthAndBucket ==
    bucket.made =>
        LET p == bucket
            last == bucket.last
        IN  /\ \A i \in 1..Len(p.pools) : \A j \in 1..Len(p.pools[i].pool) :
                   /\ p.pools[i].pool[j].cap = p.pools[i].size
                   /\ p.pools[i].pool[j].len = p.pools[i].size
            /\ last.op = "Get" =>
                   /\ ~last.panic
                   /\ last.buf.len = last.size /\ last.buf.cap >= last.size
                   /\ IF last.size > p.maxSize
                      THEN last.sp = 0
                      ELSE /\ last.sp \in 1..Len(p.pools)
                           /\ last.buf.cap = p.pools[last.sp].size
                           /\ \A i \in 1..Len(p.pools) :
                                  p.pools[i].size >= last.size => i >= last.sp
            /\ last.op = "Put" =>
                   IF last.buf.cap > p.maxSize THEN last.sp = 0
                   ELSE /\ last.sp \in 1..Len(p.pools)
                        /\ p.pools[last.sp].size = last.buf.cap

C28_Witness ==
    /\ bucket.made /\ bucket.minSize = 2 /\ bucket.maxSize = 5
    /\ bucket.last.op = "Get" /\ bucket.last.kept
    /\ bucket.last.size = 3 /\ bucket.last.buf.cap = 4
    /\ bucket.held = <<[len |-> 3, cap |-> 4]>>

\* The SQL statements of a list as a multiset.
SqlBag(list) ==
    [v \in Range(list) |-> Cardinality({k \in 1..Len(list) : list[k] = v})]

\* C29: checkRandomSQLs is true exactly when every slice of actual is in
\* some candidate map that has every db of that slice with the same SQL
\* statements as a multiset; so it is true for an empty actual, and with a
\* single db in every slice of actual it answers the same for one map as for
\* that map split into one map per slice and db.
C29_CheckRandomSQLs ==
    call.fn = "checkRandomSQLs" =>
        /\ call.result <=>
               \A slice \in DOMAIN call.actual :
                   \E i \in 1..Len(call.randomSqls) :
                       /\ slice \in DOMAIN call.randomSqls[i]
                       /\ \A db \in DOMAIN call.actual[slice] :
                              /\ db \in DOMAIN call.randomSqls[i][slice]
                              /\ SqlBag(call.randomSqls[i][slice][db])
                                     = SqlBag(call.actual[slice][db])
        /\ DOMAIN call.actual = {} => call.result
        /\ (\A slice \in DOMAIN call.actual :
                Cardinality(DOMAIN call.actual[slice]) = 1)
               => checkRandomSQLs(<<call.whole>>, call.actual)
                      = checkRandomSQLs(SplitMap(call.whole), call.actual)

C29_Witness ==
    /\ call.fn = "checkRandomSQLs" /\ call.result
    /\ Len(call.randomSqls) = 4
    /\ DOMAIN call.actual = SliceNames
    /\ call.actual["slice0"] = [d \in {"db1"} |-> <<"sql1", "sql2">>]
    /\ call.whole["slice0"]["db1"] = <<"sql2", "sql1">>

\* C30: ksConns holds no connection that has been closed or recycled, a
\* failed keep-session ping included, and no connection is closed or
\* recycled a second time.
C30_PingFailureDropsConns ==
    /\ \A s \in Sessions : \A c \in sess[s].ksConns :
           conns[c].closed = 0 /\ conns[c].recycled = 0
    /\ \A c \in 1..MaxConns : conns[c].closed <= 1 /\ conns[c].recycled <= 1

\* C31: RecycleReadPacket is called at most once for a packet Run read, and
\* exactly once when execCommand has returned, whether or not doMultiStmts
\* recycled the packet first; hasRecycledReadPacket is false when a read
\* begins.
C31_RecycleReadPacketOnce ==
    \A s \in Sessions :
        /\ sess[s].nRecycled <= 1
        /\ sess[s].pc \in {"write", "post"} => sess[s].nRecycled = 1
        /\ sess[s].pc \in {"loop", "read", "write", "post"}
               => ~sess[s].hasRecycledReadPacket

C31_Witness ==
    \E s \in Sessions :
        /\ sess[s].pc = "write" /\ sess[s].cmd = "multi"
        /\ sess[s].piece = StmtsNum /\ sess[s].rs = "Result"
        /\ sess[s].nRecycled = 1 /\ ~sess[s].hasRecycledReadPacket

\* C32: a multi-statement query stops at its first failure.  A piece is
\* executed only when every piece before it succeeded and had its result
\* written; when the command is back in Run with an error, that error is its
\* response and the pieces run are those up to the failure, each earlier one
\* with its result written; written results never go away while the command
\* lasts; a failed write of an intermediate result closes the session.
C32_MultiStmtsStopAtFailure ==
    /\ [](\A s \in Sessions :
            sess[s].cmd = "multi" /\ sess[s].pc \in {"write", "post"}
              /\ sess[s].gRun # <<>>
                => /\ Len(sess[s].gFlags) >= Len(sess[s].gRun) - 1
                   /\ ErrorKind(sess[s].rs) = "none" => Len(sess[s].gRun) = StmtsNum)
    /\ [][\A s \in Sessions :
             LET se == sess[s]
                 nx == sess'[s]
             IN  /\ Len(nx.gRun) > Len(se.gRun)
                      => /\ se.pc = "exec" /\ Len(se.gRun) = se.piece
                         /\ Len(se.gFlags) = se.piece
                         /\ se.piece > 0 => ErrorKind(se.rs) = "none"
                 /\ se.cmd = "multi" /\ se.pc \in {"exec", "mwrite", "write", "post"}
                      => /\ Len(nx.gFlags) >= Len(se.gFlags)
                         /\ SubSeq(nx.gFlags, 1, Len(se.gFlags)) = se.gFlags
                 /\ se.pc = "mwrite" /\ nx.pc = "write" /\ nx.rs = "ErrGeneric"
                      => nx.closed /\ nx.gRun = se.gRun]_vars

C32_Witness ==
    \E s \in Sessions :
        /\ sess[s].cmd = "multi" /\ sess[s].pc = "write"
        /\ sess[s].rs = "ErrGeneric" /\ sess[s].closed
        /\ Len(sess[s].gRun) = 1 /\ sess[s].gFlags = <<>>
        /\ sess[s].tw = "armed"

\* C33: a statement reaches handleQueryWithoutPlan, the planner or the
\* backend only if checkSQLAllowed accepted it; a write DML of a read-only
\* user and a blacklisted statement are rejected with an error that does not
\* close the session, with the executor as it was; the blacklist rejection
\* is counted once as SQLForbidden and nothing else is.
C33_CheckedBeforeExecution ==
    call.fn = "doQuery" =>
        LET q == call.q
            byUser == ~q.allowWrite /\ q.stmtType \in {"StmtInsert", "StmtUpdate", "StmtDelete"}
            byBlacklist == ~byUser /\ ~q.sqlAllowed
        IN  /\ call.reached # <<>> => ~byUser /\ q.sqlAllowed
            /\ byUser \/ byBlacklist
                  => /\ ErrorKind(call.err) = "error"
                     /\ call.reached = <<>>
                     /\ call.ex = call.before
                     /\ ~call.ex.closed
            /\ call.forbidden = IF byBlacklist THEN 1 ELSE 0
            /\ call.sqlForbidenCounts <= call.n

C33_Witness ==
    /\ call.fn = "doQuery" /\ call.n = 2
    /\ call.q.stmtType = "StmtUse" /\ call.q.dbName = "db2" /\ ~call.q.sqlAllowed
    /\ call.before.db = "db1" /\ call.ex.db = "db1"
    /\ call.err = "ErrUnknown" /\ call.sqlForbidenCounts = 1

\* C35: handleUseDB switches the current db exactly when the name is not
\* empty and the namespace allows it; otherwise it returns an error, ErrNoDB
\* for a db that is not allowed, and every executor field stays as it was.
C35_UseDBOnlyWhenAllowed ==
    call.fn = "doQuery" /\ call.q.stmtType = "StmtUse" /\ call.q.parses
      /\ call.reached = <<"handleQueryWithoutPlan">>
        => IF call.q.dbName # "" /\ call.q.dbName \in AllowedDBs
           THEN call.err = "none" /\ call.ex = [call.before EXCEPT !.db = call.q.dbName]
           ELSE /\ ErrorKind(call.err) = "error"
                /\ call.q.dbName # "" => call.err = "ErrNoDB"
                /\ call.ex = call.before

C35_Witness ==
    /\ call.fn = "doQuery" /\ call.q.stmtType = "StmtUse"
    /\ call.reached = <<"handleQueryWithoutPlan">> /\ call.q.parses
    /\ call.q.dbName = "dbX" /\ call.err = "ErrNoDB"
    /\ call.before.db = "db1" /\ call.ex.db = "db1"

\* C36: SET NAMES either sets charset and collation together, the collation
\* being the one given and belonging to the new charset, or the default
\* collation of the charset when none is given, or returns
\* ErrUnknownCharacterSet and leaves the executor as it was.
C36_SetNamesAllOrNothing ==
    call.fn = "doQuery" /\ call.q.stmtType = "StmtSet"
      /\ call.reached = <<"handleQueryWithoutPlan">>
        => LET charset == IF call.q.value = "default" THEN GetDefaultCharset
                          ELSE call.q.value
               given == call.q.extend
               valid == IF given = NoCollation THEN charset \in DOMAIN CharsetIds
                        ELSE /\ given \in DOMAIN CollationNames
                             /\ CollationNameToCharset[given] = charset
           IN  IF valid
               THEN /\ call.err = "none"
                    /\ call.ex.charset = charset
                    /\ call.ex.collation = IF given = NoCollation THEN CharsetIds[charset]
                                            ELSE CollationNames[given]
                    /\ \E n \in DOMAIN CollationNames :
                          /\ CollationNames[n] = call.ex.collation
                          /\ CollationNameToCharset[n] = call.ex.charset
                    /\ call.ex = [call.before EXCEPT !.charset = call.ex.charset,
                                                     !.collation = call.ex.collation]
               ELSE call.err = "ErrUnknownCharacterSet" /\ call.ex = call.before

C36_Witness ==
    /\ call.fn = "doQuery" /\ call.q.stmtType = "StmtSet"
    /\ call.reached = <<"handleQueryWithoutPlan">>
    /\ call.before.charset = "gbk" /\ call.before.collation = 28
    /\ call.q.value = "utf8" /\ call.q.extend = "gbk_chinese_ci"
    /\ call.err = "ErrUnknownCharacterSet"
    /\ call.ex.charset = "gbk" /\ call.ex.collation = 28

\* C34: handleQuery calls RecordSessionSQLMetrics exactly once for every
\* call, whatever the outcome: when a query or multi-statement command that
\* was dispatched is back in Run, one call has been made for it.
C34_MetricsRecordedOnce ==
    \A s \in Sessions :
        sess[s].pc = "write" /\ sess[s].cmd \in {"query", "multi"} /\ sess[s].gExecuted
            => sess[s].nMetrics = 1

\* C37: loadAllNamespace always terminates: whatever the number of names and
\* whichever loads fail, it returns, an error if some load failed and
\* otherwise the map of all the namespaces listed, and the collector, the
\* dispatcher and every worker come to their end.
C37_LoadAllNamespaceTerminates ==
    /\ [](call.fn = "loadAllNamespace" /\ call.collector = "returned"
            => /\ call.result = "error" <=> call.err
               /\ call.result = "map" => call.namespaceModels = call.names)
    /\ (call.fn = "loadAllNamespace")
          ~> (/\ call.fn = "loadAllNamespace"
              /\ call.collector = "returned"
              /\ call.dispatcher = "done"
              /\ call.exited \in {0, LoadWorkers})

\* C38: an instance handed to the background Close by ReloadNamespaceCommit
\* or DeleteNamespace is never again what GetNamespace returns: the active
\* slot holds no namespace that has been scheduled for closing.
C38_ClosingNeverActive ==
    \A name \in Names :
        LookupNamespace(name) # NoNs => LookupNamespace(name).id \notin closing

\* C39: a reader, which reads the active index and then the slot without a
\* lock, never returns data from a slot that a prepare or delete has staged
\* and that is not committed, however its two reads interleave with the
\* writer's prepare, commit and delete.
C39_ReaderNeverSeesStaged ==
    call.fn = "GetNamespace" /\ call.pc = "returned" => ~call.staged

\* C40: ClearNamespaceUsers(ns) and RebuildNamespaceUsers(ns) change only
\* the entries of ns: when a delete or a prepare for ns rewrites a slot from
\* the active user manager, every (user, password) pair mapped to another
\* namespace keeps its password in users[user] and its mapping in
\* userNamespaces, for any password string; and no user manager keeps a user
\* without a password, which CheckUser would still accept.
C40_ClearChangesOnlyOwnEntries ==
    /\ [](\A i \in {0, 1} : \A user \in UserNames :
              UmCheckUser(users[i], user) => UsersOf(users[i], user) # <<>>)
    /\ [][\A i \in {0, 1} :
             users'[i] # users[i] =>
                 \A user \in UserNames, password \in Passwords :
                     LET key == getUserKey(user, password)
                         src == users[switchIndex]
                     IN  /\ key \in DOMAIN src.userNamespaces
                         /\ src.userNamespaces[key] # ret'.name
                         /\ \E j \in 1..Len(UsersOf(src, user)) :
                                UsersOf(src, user)[j] = password
                         => /\ key \in DOMAIN users'[i].userNamespaces
                            /\ users'[i].userNamespaces[key] = src.userNamespaces[key]
                            /\ \E j \in 1..Len(UsersOf(users'[i], user)) :
                                   UsersOf(users'[i], user)[j] = password]_vars

====
